---- MODULE Spec2Model ----
(***************************************************************************)
(* Streaming ingestion pipeline of the health-export importer:             *)
(* backend/app/services/xml_parser.py (producer, consumers, progress       *)
(* reporter, coordinator), backend/app/services/dedup.py (bulk inserts)    *)
(* and backend/app/api/ingestion.py (upload, cancel, delete, reprocess).   *)
(***************************************************************************)
EXTENDS Integers, Sequences, FiniteSets, TLC

(***************************************************************************)
(* Bounds.  The three pipeline sizes are the program's constants scaled    *)
(* down (xml_parser.py:42-44 sets 25000, 8 and 3).                         *)
(***************************************************************************)
BATCH_SIZE == 2

MAX_QUEUE_DEPTH == 1

NUM_CONSUMERS == 2

MaxRuns == 2

Consumers == 1..NUM_CONSUMERS

BatchIds == 1..MaxRuns

User == 1

NumUsers == 2

\* The accounts that upload; User is the first of them.
Users == 1..NumUsers

(***************************************************************************)
(* Optional values: None is the empty sequence, Some(x) a singleton.       *)
(***************************************************************************)
None == <<>>

Some(x) == <<x>>

IsNone(o) == o = <<>>

(***************************************************************************)
(* XML attribute values.  A date attribute is absent, unparseable text, or *)
(* "YYYY-MM-DD HH:MM:SS +HHMM" abstracted to (local clock, utc offset).    *)
(* A numeric attribute is absent, non-numeric text or a number.            *)
(***************************************************************************)
NoAttr == [kind |-> "absent", a |-> 0, b |-> 0]

BadText == [kind |-> "text", a |-> 0, b |-> 0]

DateAttr(local, off) == [kind |-> "date", a |-> local, b |-> off]

NumAttr(n) == [kind |-> "num", a |-> n, b |-> 0]

_QUANTITY_PREFIX == "HKQuantityTypeIdentifier"

_CATEGORY_PREFIX == "HKCategoryTypeIdentifier"

_WORKOUT_PREFIX == "HKWorkoutActivityType"

\* A type identifier is <<prefix, rest>>; startswith compares the prefix.
StartsWith(raw_type, prefix) == raw_type[1] = prefix

\* _clean_type_name: strip the prefix when present, else the whole string.
_clean_type_name(raw_type, prefix) ==
    IF StartsWith(raw_type, prefix) THEN <<raw_type[2]>> ELSE raw_type

\* Faulty variant: every attribute text is taken for a date.
_parse_apple_date_Lenient(attr) == Some([local |-> attr.a, off |-> attr.b])

\* _parse_apple_date: None when missing or unparseable, else the aware datetime.
_parse_apple_date(attr) ==
    IF attr.kind = "date" THEN Some([local |-> attr.a, off |-> attr.b]) ELSE None

\* _parse_apple_date_only: a calendar date or None.
_parse_apple_date_only(attr) ==
    IF attr.kind = "date" THEN Some(attr.a) ELSE None

\* Faulty variant: text that is no number is read as zero.
_safe_float_Lenient(attr) == IF attr.kind = "absent" THEN None ELSE Some(attr.a)

\* _safe_float
_safe_float(attr) == IF attr.kind = "num" THEN Some(attr.a) ELSE None

\* elem.get(name, default) of a unit attribute.
GetOr(attr, default) == IF IsNone(attr) THEN Some(default) ELSE attr

\* unit.strip().lower() over the unit texts of the inputs.
StripLower(unit) ==
    CASE unit = "kJ" -> "kj"
      [] unit = "Cal" -> "cal"
      [] unit = "BTU" -> "btu"
      [] unit = " km " -> "km"
      [] unit = "Min" -> "min"
      [] OTHER -> unit

\* A converted field is held in thousandths: the float v unconverted.
Thousandths(v) == v * 1000

\* The conversion factors, in thousandths.
_KCAL_TO_KJ == 4184

_KM_TO_M == 1000000

_MI_TO_M == 1609344

_MIN_TO_SEC == 60000

_HR_TO_SEC == 3600000

\* _convert_to_kj: value from _safe_float, unit None or Some(text).
_convert_to_kj(value, unit) ==
    IF IsNone(value) \/ IsNone(unit) THEN None
    ELSE LET unit_lower == StripLower(unit[1])
         IN  IF unit_lower \in {"kcal", "cal"} THEN Some(value[1] * _KCAL_TO_KJ)
             ELSE IF unit_lower = "kj" THEN Some(Thousandths(value[1]))
             ELSE Some(Thousandths(value[1]))

\* _convert_to_meters
_convert_to_meters(value, unit) ==
    IF IsNone(value) \/ IsNone(unit) THEN None
    ELSE LET unit_lower == StripLower(unit[1])
         IN  IF unit_lower = "km" THEN Some(value[1] * _KM_TO_M)
             ELSE IF unit_lower \in {"mi", "mile", "miles"}
             THEN Some(value[1] * _MI_TO_M)
             ELSE IF unit_lower \in {"m", "meter", "meters"}
             THEN Some(Thousandths(value[1]))
             ELSE Some(Thousandths(value[1]))

\* _convert_duration_to_seconds
_convert_duration_to_seconds(value, unit) ==
    IF IsNone(value) \/ IsNone(unit) THEN None
    ELSE LET unit_lower == StripLower(unit[1])
         IN  IF unit_lower \in {"min", "minute", "minutes"}
             THEN Some(value[1] * _MIN_TO_SEC)
             ELSE IF unit_lower \in {"hr", "hour", "hours"}
             THEN Some(value[1] * _HR_TO_SEC)
             ELSE IF unit_lower \in {"s", "sec", "second", "seconds"}
             THEN Some(Thousandths(value[1]))
             ELSE Some(Thousandths(value[1]))

\* The instant an aware datetime denotes (what a timestamptz column stores).
Instant(dt) == dt.local - dt.off

\* datetime.isoformat(): keeps the local clock and the offset apart.
IsoFormat(dt) == <<dt.local, dt.off>>

\* uuid5(_WORKOUT_NS, f"{user_id}:{start.isoformat()}:{activity_type}"):
\* an injective function of the key string.
WorkoutId(user_id, start, activity_type) ==
    <<user_id, IF IsNone(start) THEN <<>> ELSE IsoFormat(start[1]), activity_type>>

(***************************************************************************)
(* Input elements.  Every element carries the attributes the producer      *)
(* reads; locs are the date attributes of the WorkoutRoute/Location        *)
(* children (latitude and longitude are taken to be numeric).  A unit      *)
(* attribute is None when absent, else Some(text).                         *)
(***************************************************************************)
Elem(tag, type, startDate, value, sourceName, locs) ==
    [tag |-> tag, type |-> type, startDate |-> startDate, value |-> value,
     sourceName |-> sourceName, sourceVersion |-> None, locs |-> locs,
     duration |-> NoAttr, durationUnit |-> None,
     totalDistance |-> NoAttr, totalDistanceUnit |-> None,
     totalEnergyBurned |-> NoAttr, totalEnergyBurnedUnit |-> None,
     activeEnergyBurned |-> NoAttr, activeEnergyBurnedUnit |-> None,
     activeEnergyBurnedGoal |-> NoAttr]

EmptyPayload ==
    [health |-> <<>>, category |-> <<>>, workouts |-> <<>>,
     route_points |-> <<>>, activity |-> <<>>]

\* A queue entry is a payload with its ordinal; NoEntry: the consumer holds none.
NoEntry == [pid |-> 0, p |-> EmptyPayload]

\* The records of a payload that the producer's total_count counts (lines
\* 526-555): every kind but the route points.
RecordsOf(p) ==
    Len(p.health) + Len(p.category) + Len(p.workouts) + Len(p.activity)

\* BatchPayload.__len__
PayloadLen(p) ==
    Len(p.health) + Len(p.category) + Len(p.workouts)
        + Len(p.route_points) + Len(p.activity)

\* _process_record_element: None, or <<kind, row>>.
_process_record_element(elem, user_id, batch_id, source_id) ==
    LET start == _parse_apple_date(elem.startDate)
    IN  IF IsNone(start) THEN None
        ELSE IF StartsWith(elem.type, _QUANTITY_PREFIX)
        THEN LET raw_value == _safe_float(elem.value)
             IN  IF IsNone(raw_value) THEN None
                 ELSE Some(<<"health",
                        [time |-> start[1], user_id |-> user_id,
                         metric_type |-> _clean_type_name(elem.type, _QUANTITY_PREFIX),
                         value |-> raw_value[1], source_id |-> source_id,
                         batch_id |-> batch_id]>>)
        ELSE IF StartsWith(elem.type, _CATEGORY_PREFIX)
        THEN Some(<<"category",
                    [time |-> start[1], user_id |-> user_id,
                     category_type |-> _clean_type_name(elem.type, _CATEGORY_PREFIX),
                     value |-> elem.value, source_id |-> source_id,
                     batch_id |-> batch_id]>>)
        ELSE None

\* The route points of a Workout element: the locations with a parseable date.
RECURSIVE RoutePointsOf(_, _)
RoutePointsOf(locs, workout_id) ==
    IF locs = <<>> THEN <<>>
    ELSE LET pt_time == _parse_apple_date(Head(locs))
             rest == RoutePointsOf(Tail(locs), workout_id)
         IN  IF IsNone(pt_time) THEN rest
             ELSE <<[time |-> pt_time[1], workout_id |-> workout_id]>> \o rest

\* _process_workout_element: <<workout, route_points>>; workout.time may be None.
_process_workout_element(elem, user_id, batch_id, source_id) ==
    LET start == _parse_apple_date(elem.startDate)
        activity_type == _clean_type_name(elem.type, _WORKOUT_PREFIX)
        workout_id == WorkoutId(user_id, start, activity_type)
        duration_val == _safe_float(elem.duration)
        duration_unit == GetOr(elem.durationUnit, "min")
        distance_val == _safe_float(elem.totalDistance)
        distance_unit == GetOr(elem.totalDistanceUnit, "km")
        energy_val == _safe_float(elem.totalEnergyBurned)
        energy_unit == GetOr(elem.totalEnergyBurnedUnit, "kcal")
    IN  <<[id |-> workout_id, user_id |-> user_id, time |-> start,
           activity_type |-> activity_type,
           duration_sec |-> _convert_duration_to_seconds(duration_val,
                                                         duration_unit),
           total_distance_m |-> _convert_to_meters(distance_val, distance_unit),
           total_energy_kj |-> _convert_to_kj(energy_val, energy_unit),
           source_id |-> source_id, batch_id |-> batch_id],
          RoutePointsOf(elem.locs, workout_id)>>

\* _process_activity_summary_element: None or the summary row.
_process_activity_summary_element(elem, user_id) ==
    LET d == _parse_apple_date_only(elem.startDate)
        energy_val == _safe_float(elem.activeEnergyBurned)
        energy_unit == GetOr(elem.activeEnergyBurnedUnit, "kcal")
        goal_val == _safe_float(elem.activeEnergyBurnedGoal)
    IN  IF IsNone(d) THEN None
        ELSE Some([date |-> d[1], user_id |-> user_id,
                   active_energy_burned_kj |->
                       _convert_to_kj(energy_val, energy_unit),
                   active_energy_goal_kj |->
                       _convert_to_kj(goal_val, energy_unit)])

(***************************************************************************)
(* Storage: the bulk inserts of dedup.py against the tables' constraints.  *)
(* A table is a set of rows; a timestamptz column holds the instant.       *)
(***************************************************************************)
\* health_records: primary key (time, user_id, metric_type).
HealthPkEq(row, r) ==
    /\ row.time = Instant(r.time)
    /\ row.user_id = r.user_id
    /\ row.metric_type = r.metric_type

\* uq_health_record_dedup; a NULL source_id never equals another NULL.
HealthUqEq(row, r) ==
    /\ HealthPkEq(row, r)
    /\ row.value = r.value
    /\ ~IsNone(r.source_id)
    /\ row.source_id = r.source_id

\* Faulty variant: the insert arbitrates on uq_health_record_dedup alone.
HealthConflict_UqOnly(table, r) == \E row \in table : HealthUqEq(row, r)

\* Bare ON CONFLICT DO NOTHING: a conflict on any unique index skips the row.
HealthConflict(table, r) ==
    \E row \in table : HealthPkEq(row, r) \/ HealthUqEq(row, r)

StoredTime(r) == [r EXCEPT !.time = Instant(r.time)]

RECURSIVE bulk_insert_health_records(_, _)
bulk_insert_health_records(table, records) ==
    IF records = <<>> THEN table
    ELSE LET r == Head(records)
             t == IF HealthConflict(table, r) THEN table
                  ELSE table \cup {StoredTime(r)}
         IN  bulk_insert_health_records(t, Tail(records))

\* category_records: ON CONFLICT (time, user_id, category_type) DO NOTHING.
CategoryConflict(table, r) ==
    \E row \in table :
        /\ row.time = Instant(r.time)
        /\ row.user_id = r.user_id
        /\ row.category_type = r.category_type

RECURSIVE bulk_insert_category_records(_, _)
bulk_insert_category_records(table, records) ==
    IF records = <<>> THEN table
    ELSE LET r == Head(records)
             t == IF CategoryConflict(table, r) THEN table
                  ELSE table \cup {StoredTime(r)}
         IN  bulk_insert_category_records(t, Tail(records))

\* activity_summaries: ON CONFLICT (date, user_id) DO NOTHING.
ActivityConflict(table, r) ==
    \E row \in table : row.date = r.date /\ row.user_id = r.user_id

RECURSIVE bulk_insert_activity_summaries(_, _)
bulk_insert_activity_summaries(table, records) ==
    IF records = <<>> THEN table
    ELSE LET r == Head(records)
             t == IF ActivityConflict(table, r) THEN table ELSE table \cup {r}
         IN  bulk_insert_activity_summaries(t, Tail(records))

\* workouts: ON CONFLICT (user_id, time, activity_type) DO NOTHING.
WorkoutConflict(table, r) ==
    \E row \in table :
        /\ row.user_id = r.user_id
        /\ row.time = Instant(r.time[1])
        /\ row.activity_type = r.activity_type

\* The primary key (id) is no arbiter of the insert: a clash on it raises.
WorkoutPkViolation(table, r) ==
    ~WorkoutConflict(table, r) /\ \E row \in table : row.id = r.id

StoredWorkout(r) == [r EXCEPT !.time = Instant(r.time[1])]

\* bulk_insert_workouts: [ok, table]; ok = FALSE when the statement raised.
RECURSIVE bulk_insert_workouts(_, _)
bulk_insert_workouts(table, records) ==
    IF records = <<>> THEN [ok |-> TRUE, table |-> table]
    ELSE LET r == Head(records)
         IN  IF WorkoutPkViolation(table, r) THEN [ok |-> FALSE, table |-> table]
             ELSE bulk_insert_workouts(
                    IF WorkoutConflict(table, r) THEN table
                    ELSE table \cup {StoredWorkout(r)},
                    Tail(records))

\* Faulty variant: the column carries no foreign key.
RouteFkOk_Unchecked(wtable, r) == TRUE

\* workout_route_points.workout_id is a foreign key to workouts.id.
RouteFkOk(wtable, r) == \E w \in wtable : w.id = r.workout_id

\* ON CONFLICT (time, workout_id) DO NOTHING.
RouteConflict(table, r) ==
    \E row \in table :
        row.time = Instant(r.time) /\ row.workout_id = r.workout_id

\* bulk_insert_workout_route_points: [ok, table]; one statement, so one row
\* breaking the foreign key fails all of them.
RECURSIVE bulk_insert_workout_route_points(_, _, _)
bulk_insert_workout_route_points(table, wtable, records) ==
    IF records = <<>> THEN [ok |-> TRUE, table |-> table]
    ELSE LET r == Head(records)
         IN  IF ~RouteFkOk(wtable, r) THEN [ok |-> FALSE, table |-> table]
             ELSE bulk_insert_workout_route_points(
                    IF RouteConflict(table, r) THEN table
                    ELSE table \cup {StoredTime(r)},
                    wtable, Tail(records))

(***************************************************************************)
(* Inputs: the export files the runs parse.                                *)
(***************************************************************************)
Steps == <<_QUANTITY_PREFIX, "StepCount">>

Sleep == <<_CATEGORY_PREFIX, "SleepAnalysis">>

Running == <<_WORKOUT_PREFIX, "Running">>

NoType == <<"", "">>

h1 == Elem("Record", Steps, DateAttr(1, 0), NumAttr(1), None, <<>>)

\* Same owner, metric type and instant as h1, another value.
h1b == Elem("Record", Steps, DateAttr(1, 0), NumAttr(2), None, <<>>)

\* A sample of a named source.
h2s == Elem("Record", Steps, DateAttr(2, 0), NumAttr(1), Some("Watch"), <<>>)

\* A Record without a parseable startDate.
hbad == Elem("Record", Steps, BadText, NumAttr(1), None, <<>>)

\* A quantitative Record whose value is not a number.
hnov == Elem("Record", Steps, DateAttr(3, 0), BadText, None, <<>>)

c1 == Elem("Record", Sleep, DateAttr(1, 0), BadText, None, <<>>)

w1 == Elem("Workout", Running, DateAttr(1, 0), NoAttr, None, <<DateAttr(1, 0)>>)

\* The instant of w1 written with another utc offset.
w1b == Elem("Workout", Running, DateAttr(2, 1), NoAttr, None, <<DateAttr(2, 0)>>)

\* A Workout without a parseable startDate.
wbad == Elem("Workout", Running, BadText, NoAttr, None, <<DateAttr(1, 0)>>)

\* A Workout with two route points: with its row it exceeds a small payload.
w2 == Elem("Workout", Running, DateAttr(3, 0), NoAttr, None,
           <<DateAttr(3, 0), DateAttr(4, 0)>>)

\* A sample of a second named source.
hp == Elem("Record", Steps, DateAttr(1, 0), NumAttr(1), Some("Phone"), <<>>)

\* A later sample of the source of h2s.
h3s == Elem("Record", Steps, DateAttr(3, 0), NumAttr(1), Some("Watch"), <<>>)

a1 == Elem("ActivitySummary", NoType, DateAttr(1, 0), NoAttr, None, <<>>)

Inputs ==
    { <<>>,
      <<h1, h1b, c1>>,
      <<w1, w1b>>,
      <<hbad, h2s, a1>>,
      <<h1, w1, a1>>,
      <<h1, c1, h1b>>,
      <<h1, w2, a1>>,
      <<wbad, hnov, h1>>,
      <<h2s, hp, h3s>> }

(***************************************************************************)
(* State.                                                                  *)
(***************************************************************************)
VARIABLES
    input,          \* the stored export file
    batches,        \* import_batches: batch id -> row
    health,         \* health_records
    category,       \* category_records
    activity,       \* activity_summaries
    workouts,       \* workouts
    routes,         \* workout_route_points
    dataSources,    \* data_sources: the keys in id order
    nRuns,          \* pipeline runs scheduled so far
    runBatch,       \* batch_id of the scheduled run
    runUser,        \* user_id of the scheduled run
    source_cache,   \* _DataSourceCache._cache
    ppc,            \* producer: position in _producer
    pos,            \* producer: index of the next element
    pbatch,         \* producer: the payload being built
    total_count,    \* producer: records parsed
    sent,           \* producer: sentinels enqueued
    queue,          \* the bounded asyncio.Queue
    cpc,            \* consumer -> position in _consumer/_flush_batch
    cbatch,         \* consumer -> the payload it holds
    ctodo,          \* consumer -> independent inserts still in flight
    progress,       \* progress[0]
    cancelled,      \* cancelled[0]
    mpc,            \* progress reporter: position
    last_reported,  \* progress reporter: last value written
    coordPc,        \* parse_health_export: position
    coord_total,    \* parse_health_export: its local total_count
    raised,         \* parse_health_export re-raised an error
    cancelPc,       \* cancel endpoint: batch it read as processing, or 0
    cancelResp,     \* cancel endpoint: last response
    enq,            \* history: payloads enqueued by the run
    enqRecs,        \* history: records (route points apart) in those payloads
    enqAtCancel,    \* history: enq when the cancel flag was set, else -1
    flushedN,       \* history: payload number -> times flushed
    subFail,        \* history: payload numbers whose workout/route insert failed
    written,        \* history: the terminal status the run wrote, or "none"
    req,            \* upload endpoint: the request being handled
    upc,            \* upload endpoint: position in upload_health_data
    uploadResp,     \* upload endpoint: last response
    disk,           \* upload endpoint: paths of the files written
    pElem,          \* element processors: the element handed in
    pOut,           \* element processors: what was returned
    now,            \* rate limiter: time.time()
    _request_log,   \* rate limiter: IP -> admitted timestamps kept
    rateResp,       \* rate limiter: last request's IP and outcome
    admitted,       \* history: IP -> every timestamp ever admitted
    monErrs,        \* history: errors the progress monitor has swallowed
    pendingFail,    \* history: progress value whose write failed, -1 if none
    srcRows,        \* data_sources: the committed rows [id, key]
    srcSeq,         \* data_sources: next value of the id sequence
    rpc,            \* run -> position of its source resolution
    rKey,           \* run -> (name, version) it resolves
    rCache,         \* run -> its _DataSourceCache
    rId,            \* run -> the id it resolved, 0 before
    surfaced,       \* the exception parse_health_export raised after a failed status write
    mRow,           \* maintenance model: the batch row [status, record_count]
    mLanded,        \* maintenance model: landed rows that carry the batch's id
    mActive,        \* maintenance model: runs of the batch scheduled and not ended
    mFile,          \* maintenance model: what is stored on disk for the batch
    mReq,           \* maintenance model: request -> [kind, user, pc, resp]
    _challenges,    \* core/auth.py: key -> None or Some([challenge, expiry])
    chalOut,        \* the last get_challenge: [key, result]
    issued,         \* history: key -> the last challenge stored and when
    served          \* history: key -> times that challenge has been returned

storageVars == <<health, category, activity, workouts, routes, dataSources>>

producerVars == <<source_cache, ppc, pos, pbatch, total_count, sent>>

consumerVars == <<cpc, cbatch, ctodo, progress>>

monitorVars == <<mpc, last_reported, cancelled>>

coordVars == <<coordPc, coord_total, raised>>

cancelVars == <<cancelPc, cancelResp>>

histVars == <<enq, enqRecs, enqAtCancel, flushedN, subFail, written>>

uploadVars == <<req, upc, uploadResp, disk>>

parseVars == <<pElem, pOut>>

rateVars == <<now, _request_log, rateResp, admitted>>

monFaultVars == <<monErrs, pendingFail>>
finVars == <<surfaced>>
chalVars == <<_challenges, chalOut, issued, served>>
maintVars == <<mRow, mLanded, mActive, mFile, mReq>>
srcVars == <<srcRows, srcSeq, rpc, rKey, rCache, rId>>
auxVars == <<monFaultVars, srcVars, finVars, maintVars, chalVars>>
auxNotMon == <<srcVars, finVars, maintVars, chalVars>>
auxNotSrc == <<monFaultVars, finVars, maintVars, chalVars>>
auxNotFin == <<monFaultVars, srcVars, maintVars, chalVars>>
auxNotMaint == <<monFaultVars, srcVars, finVars, chalVars>>
auxNotChal == <<monFaultVars, srcVars, finVars, maintVars>>
sideVars == <<parseVars, rateVars, auxVars>>

vars ==
    <<input, batches, storageVars, nRuns, runBatch, runUser, producerVars, queue,
      consumerVars, monitorVars, coordVars, cancelVars, histVars, uploadVars,
      sideVars>>

\* No upload request is being handled.
NoRequest == [suffix |-> "", oversize |-> FALSE, badzip |-> FALSE,
              members |-> <<>>, complete |-> FALSE]

Terminal == {"completed", "cancelled", "failed"}

Active == {"processing", "cancelling"}

\* ImportBatch(status="processing", record_count=0) with the column defaults.
NewBatchRow ==
    [user_id |-> User, status |-> "processing", record_count |-> 0,
     error_count |-> 0, skipped_count |-> 0, error_messages |-> None]

\* UPDATE import_batches ... WHERE id = b: no row, no effect.
BatchRow(u) == [NewBatchRow EXCEPT !.user_id = u]

UpdateStatus(rows, b, st, n) ==
    IF b \in DOMAIN rows
    THEN [rows EXCEPT ![b].status = st, ![b].record_count = n]
    ELSE rows

\* Faulty variant: the progress write also puts the status back.
UpdateCount_AndStatus(rows, b, n) ==
    IF b \in DOMAIN rows
    THEN [rows EXCEPT ![b].record_count = n, ![b].status = "processing"]
    ELSE rows

UpdateCount(rows, b, n) ==
    IF b \in DOMAIN rows THEN [rows EXCEPT ![b].record_count = n] ELSE rows

(***************************************************************************)
(* The element processors applied to one element.                          *)
(***************************************************************************)
NotParsed == [tag |-> "", out |-> None]

Values == {NoAttr, BadText, NumAttr(2)}

DurationUnits ==
    {None, Some("min"), Some("hr"), Some("s"), Some("Min"), Some("day")}

DistanceUnits ==
    {None, Some("km"), Some("mi"), Some("m"), Some(" km "), Some("ft")}

EnergyUnits == {None, Some("kcal"), Some("Cal"), Some("kJ"), Some("BTU")}

RecordElems ==
    {Elem("Record", t, d, v, None, <<>>) :
        t \in {Steps, Sleep, Running, NoType},
        d \in {NoAttr, BadText, DateAttr(1, 0), DateAttr(2, 1)},
        v \in {NoAttr, BadText, NumAttr(1)}}

WorkoutElems ==
    {[w1 EXCEPT !.duration = v, !.durationUnit = u] :
        v \in Values, u \in DurationUnits}
    \cup {[w1 EXCEPT !.totalDistance = v, !.totalDistanceUnit = u] :
            v \in Values, u \in DistanceUnits}
    \cup {[w1 EXCEPT !.totalEnergyBurned = v, !.totalEnergyBurnedUnit = u] :
            v \in Values, u \in EnergyUnits}

SummaryElems ==
    {[a1 EXCEPT !.startDate = d, !.activeEnergyBurned = v,
                !.activeEnergyBurnedGoal = g, !.activeEnergyBurnedUnit = u] :
        d \in {BadText, DateAttr(1, 0)}, v \in Values, g \in Values,
        u \in EnergyUnits}

ParseInputs == RecordElems \cup WorkoutElems \cup SummaryElems

ParseIdle == pElem = a1 /\ pOut = NotParsed

(***************************************************************************)
(* The rate limiter of the auth endpoints (core/rate_limit.py).            *)
(***************************************************************************)
_MAX_REQUESTS == 2

_WINDOW_SECONDS == 2

\* The clock is read up to MaxClock.
MaxClock == 3

\* request.client.host of the callers.
IPs == {"10.0.0.1", "10.0.0.2"}

NoRateResp == [ip |-> "", code |-> "none", seq |-> 0]

RateIdle ==
    /\ now = 0
    /\ _request_log = [ip \in IPs |-> <<>>]
    /\ rateResp = NoRateResp
    /\ admitted = [ip \in IPs |-> <<>>]

\* Nothing scheduled, nothing stored, no request in hand.
PipelineIdle ==
    /\ batches = <<>>
    /\ health = {} /\ category = {} /\ activity = {}
    /\ workouts = {} /\ routes = {}
    /\ dataSources = <<>>
    /\ nRuns = 0 /\ runBatch = 0 /\ runUser = User
    /\ source_cache = {}
    /\ ppc = "idle" /\ pos = 1 /\ pbatch = EmptyPayload
    /\ total_count = 0 /\ sent = 0
    /\ queue = <<>>
    /\ cpc = [c \in Consumers |-> "idle"]
    /\ cbatch = [c \in Consumers |-> NoEntry]
    /\ ctodo = [c \in Consumers |-> {}]
    /\ progress = 0 /\ cancelled = FALSE
    /\ mpc = "idle" /\ last_reported = -1
    /\ coordPc = "idle" /\ coord_total = 0 /\ raised = FALSE
    /\ cancelPc = 0 /\ cancelResp = "none"
    /\ enq = 0 /\ flushedN = <<>> /\ subFail = {} /\ written = "none"
    /\ enqRecs = 0 /\ enqAtCancel = -1
    /\ req = NoRequest /\ upc = "idle" /\ uploadResp = "none" /\ disk = {}

MonitorFaultIdle == monErrs = 0 /\ pendingFail = -1

NumResolvers == 2

Resolvers == 1..NumResolvers

SourceNames == {"Watch", "Phone"}

Versions == {None, Some("9.0")}

SrcKeys == {<<n, v>> : n \in SourceNames, v \in Versions}

SrcIdle ==
    /\ srcRows = {} /\ srcSeq = 1
    /\ rpc = [r \in Resolvers |-> "idle"]
    /\ rKey = [r \in Resolvers |-> <<"Watch", None>>]
    /\ rCache = [r \in Resolvers |-> {}]
    /\ rId = [r \in Resolvers |-> 0]

FinIdle == surfaced = "none"

NumRequests == 2

MaintRequests == 1..NumRequests

MaxLanded == 2

NoMaintRequest == [kind |-> "none", user |-> 0, pc |-> "idle", resp |-> "none"]

\* The state an accepted upload leaves: the row processing, its run
\* scheduled, nothing landed yet.
MaintReady ==
    /\ mRow = [status |-> "processing", record_count |-> 0]
    /\ mLanded = 0
    /\ mActive = 1
    /\ mReq = [q \in MaintRequests |-> NoMaintRequest]

MaintIdle == MaintReady /\ mFile = "xml"

_CHALLENGE_TTL == 1

ChallengeKeys == {"alice@example.org", "challenge-id"}

Challenges == {"c1", "c2"}

NoChalOut == [key |-> "", result |-> None]

NotIssued == [challenge |-> "", at |-> -1]

ChalIdle ==
    /\ _challenges = [k \in ChallengeKeys |-> None]
    /\ chalOut = NoChalOut
    /\ issued = [k \in ChallengeKeys |-> NotIssued]
    /\ served = [k \in ChallengeKeys |-> 0]

AuxIdle == MonitorFaultIdle /\ SrcIdle /\ FinIdle /\ MaintIdle /\ ChalIdle

Init ==
    /\ input \in Inputs
    /\ PipelineIdle
    /\ ParseIdle
    /\ RateIdle
    /\ AuxIdle

(***************************************************************************)
(* Source registry (_DataSourceCache).  The cache is a set of              *)
(* [key, id]; data_sources assigns ids in insertion order.                 *)
(***************************************************************************)
SourceKey(elem) == <<elem.sourceName, elem.sourceVersion>>

\* _DataSourceCache.warm
Warm(ds) == {[key |-> ds[i], id |-> i] : i \in 1..Len(ds)}

\* _DataSourceCache.lookup
Lookup(cache, elem) ==
    IF IsNone(elem.sourceName) THEN None
    ELSE IF \E e \in cache : e.key = SourceKey(elem)
         THEN Some((CHOOSE e \in cache : e.key = SourceKey(elem)).id)
         ELSE None

\* _DataSourceCache.get_or_create with the session's commit: [id, cache, ds].
GetOrCreate(cache, ds, elem) ==
    LET key == SourceKey(elem)
        found == {i \in 1..Len(ds) : ds[i] = key}
        ds2 == IF found = {} THEN Append(ds, key) ELSE ds
        id == IF found = {} THEN Len(ds) + 1 ELSE CHOOSE i \in found : TRUE
    IN  [id |-> Some(id), cache |-> cache \cup {[key |-> key, id |-> id]}, ds |-> ds2]

\* Faulty variant: every named element inserts a data_sources row.
ResolveSource_AlwaysCreate(cache, ds, elem) ==
    IF IsNone(elem.sourceName) THEN [id |-> None, cache |-> cache, ds |-> ds]
    ELSE [id |-> Some(Len(ds) + 1),
          cache |-> cache \cup {[key |-> SourceKey(elem), id |-> Len(ds) + 1]},
          ds |-> Append(ds, SourceKey(elem))]

\* Lines 505-517 of _producer: the fast path, then the transactional path.
ResolveSource(cache, ds, elem) ==
    LET hit == Lookup(cache, elem)
    IN  IF IsNone(hit) /\ ~IsNone(elem.sourceName)
        THEN GetOrCreate(cache, ds, elem)
        ELSE [id |-> hit, cache |-> cache, ds |-> ds]

\* Faulty variant: the route points of a skipped workout stay in the payload.
Classify_KeepsOrphanPoints(batch, total, elem, user_id, batch_id, source_id) ==
    IF elem.tag = "Record"
    THEN LET result == _process_record_element(elem, user_id, batch_id, source_id)
         IN  IF IsNone(result) THEN [batch |-> batch, total |-> total]
             ELSE IF result[1][1] = "health"
             THEN [batch |-> [batch EXCEPT !.health = Append(@, result[1][2])],
                   total |-> total + 1]
             ELSE [batch |-> [batch EXCEPT !.category = Append(@, result[1][2])],
                   total |-> total + 1]
    ELSE IF elem.tag = "Workout"
    THEN LET wr == _process_workout_element(elem, user_id, batch_id, source_id)
         IN  IF IsNone(wr[1].time)
             THEN [batch |-> [batch EXCEPT !.route_points = @ \o wr[2]],
                   total |-> total]
             ELSE [batch |-> [batch EXCEPT !.workouts = Append(@, wr[1]),
                                           !.route_points = @ \o wr[2]],
                   total |-> total + 1]
    ELSE LET summary == _process_activity_summary_element(elem, user_id)
         IN  IF IsNone(summary) THEN [batch |-> batch, total |-> total]
             ELSE [batch |-> [batch EXCEPT !.activity = Append(@, summary[1])],
                   total |-> total + 1]

\* Lines 519-555 of _producer: classify one element into the payload.
Classify(batch, total, elem, user_id, batch_id, source_id) ==
    IF elem.tag = "Record"
    THEN LET result == _process_record_element(elem, user_id, batch_id, source_id)
         IN  IF IsNone(result) THEN [batch |-> batch, total |-> total]
             ELSE IF result[1][1] = "health"
             THEN [batch |-> [batch EXCEPT !.health = Append(@, result[1][2])],
                   total |-> total + 1]
             ELSE [batch |-> [batch EXCEPT !.category = Append(@, result[1][2])],
                   total |-> total + 1]
    ELSE IF elem.tag = "Workout"
    THEN LET wr == _process_workout_element(elem, user_id, batch_id, source_id)
         IN  IF IsNone(wr[1].time) THEN [batch |-> batch, total |-> total]
             ELSE [batch |-> [batch EXCEPT !.workouts = Append(@, wr[1]),
                                           !.route_points = @ \o wr[2]],
                   total |-> total + 1]
    ELSE LET summary == _process_activity_summary_element(elem, user_id)
         IN  IF IsNone(summary) THEN [batch |-> batch, total |-> total]
             ELSE [batch |-> [batch EXCEPT !.activity = Append(@, summary[1])],
                   total |-> total + 1]

(***************************************************************************)
(* Scheduling a run: parse_health_export up to the wait (lines 746-780).   *)
(***************************************************************************)
StartRun(b, ds, u) ==
    /\ runBatch' = b
    /\ runUser' = u
    /\ nRuns' = nRuns + 1
    /\ source_cache' = Warm(ds)
    /\ ppc' = IF input = <<>> THEN "final" ELSE "loop"
    /\ pos' = 1 /\ pbatch' = EmptyPayload /\ total_count' = 0 /\ sent' = 0
    /\ queue' = <<>>
    /\ cpc' = [c \in Consumers |-> "get"]
    /\ cbatch' = [c \in Consumers |-> NoEntry]
    /\ ctodo' = [c \in Consumers |-> {}]
    /\ progress' = 0 /\ cancelled' = FALSE
    /\ mpc' = "sleep" /\ last_reported' = -1
    /\ coordPc' = "wait" /\ coord_total' = 0 /\ raised' = FALSE
    /\ enq' = 0 /\ flushedN' = <<>> /\ subFail' = {} /\ written' = "none"
    /\ enqRecs' = 0 /\ enqAtCancel' = -1

NoRunActive == coordPc \in {"idle", "done"}

\* upload_health_data, lines 172-184, called by user u: the row, then the
\* scheduled run with user.id.
CreateBatchFor(u) ==
    /\ NoRunActive
    /\ nRuns < MaxRuns
    /\ batches' = (nRuns + 1 :> BatchRow(u)) @@ batches
    /\ StartRun(nRuns + 1, dataSources, u)
    /\ UNCHANGED <<sideVars, input, storageVars, cancelVars>>

CreateBatch == CreateBatchFor(User)

\* upload_health_data with a file that passes every validation.
Upload == CreateBatch /\ UNCHANGED uploadVars

\* The same by any account.
UploadBy(u) == CreateBatchFor(u) /\ UNCHANGED uploadVars

(***************************************************************************)
(* Producer (_producer).                                                   *)
(***************************************************************************)
\* Faulty variant: an unbounded queue, put never blocks.
QueueFull_Unbounded == FALSE

\* asyncio.Queue(maxsize=MAX_QUEUE_DEPTH).full()

QueueFull == Len(queue) >= MAX_QUEUE_DEPTH

\* One iteration of the parse loop up to the enqueue decision (lines 502-562).
ProducerStep ==
    /\ ppc = "loop"
    /\ LET elem == input[pos]
           src == ResolveSource(source_cache, dataSources, elem)
           res == Classify(pbatch, total_count, elem, runUser, runBatch, src.id)
       IN  /\ source_cache' = src.cache
           /\ dataSources' = src.ds
           /\ pbatch' = res.batch
           /\ total_count' = res.total
           /\ IF PayloadLen(res.batch) >= BATCH_SIZE
              THEN ppc' = "put_full" /\ pos' = pos
              ELSE /\ pos' = pos + 1
                   /\ ppc' = IF pos = Len(input) THEN "final" ELSE "loop"
    /\ UNCHANGED <<sideVars, uploadVars, input, batches, health, category, activity, workouts, routes,
                   nRuns, runBatch, runUser, sent, queue, consumerVars, monitorVars,
                   coordVars, cancelVars, histVars>>

\* queue.put of a payload: the entry carries its ordinal for the history.
Enqueue ==
    /\ queue' = Append(queue, Some([pid |-> enq + 1, p |-> pbatch]))
    /\ enq' = enq + 1
    /\ enqRecs' = enqRecs + RecordsOf(pbatch)
    /\ flushedN' = Append(flushedN, 0)
    /\ pbatch' = EmptyPayload

\* Lines 562-566: put the full payload, then look at the cancel flag.
ProducerPutFull ==
    /\ ppc = "put_full"
    /\ ~QueueFull
    /\ Enqueue
    /\ IF cancelled
       THEN ppc' = "final" /\ pos' = pos
       ELSE /\ pos' = pos + 1
            /\ ppc' = IF pos = Len(input) THEN "final" ELSE "loop"
    /\ UNCHANGED <<sideVars, uploadVars, input, batches, storageVars, nRuns, runBatch, runUser, source_cache,
                   total_count, sent, consumerVars, monitorVars, coordVars,
                   cancelVars, subFail, written, enqAtCancel>>

\* Faulty variant: the last put is not guarded by the cancel flag.
ProducerFinal_IgnoresFlag ==
    /\ ppc = "final"
    /\ IF PayloadLen(pbatch) > 0
       THEN IF QueueFull
            THEN /\ ppc' = "put_final"
                 /\ UNCHANGED <<pbatch, queue, enq, enqRecs, flushedN>>
            ELSE Enqueue /\ ppc' = "pills"
       ELSE /\ ppc' = "pills"
            /\ UNCHANGED <<pbatch, queue, enq, enqRecs, flushedN>>
    /\ UNCHANGED <<sideVars, uploadVars, input, batches, storageVars, nRuns, runBatch, runUser,
                   source_cache, pos, total_count, sent, consumerVars,
                   monitorVars, coordVars, cancelVars, subFail, written,
                   enqAtCancel>>

\* Lines 577-578: the guard of the last put, and the put itself when the
\* queue has room (queue.put suspends only on a full queue).
ProducerFinal ==
    /\ ppc = "final"
    /\ IF PayloadLen(pbatch) > 0 /\ ~cancelled
       THEN IF QueueFull
            THEN /\ ppc' = "put_final"
                 /\ UNCHANGED <<pbatch, queue, enq, enqRecs, flushedN>>
            ELSE Enqueue /\ ppc' = "pills"
       ELSE /\ ppc' = "pills"
            /\ UNCHANGED <<pbatch, queue, enq, enqRecs, flushedN>>
    /\ UNCHANGED <<sideVars, uploadVars, input, batches, storageVars, nRuns, runBatch, runUser,
                   source_cache, pos, total_count, sent, consumerVars,
                   monitorVars, coordVars, cancelVars, subFail, written,
                   enqAtCancel>>

\* Line 578: the put that waited on a full queue proceeds.
ProducerPutFinal ==
    /\ ppc = "put_final"
    /\ ~QueueFull
    /\ Enqueue
    /\ ppc' = "pills"
    /\ UNCHANGED <<sideVars, uploadVars, input, batches, storageVars, nRuns, runBatch, runUser, source_cache,
                   pos, total_count, sent, consumerVars, monitorVars, coordVars,
                   cancelVars, subFail, written, enqAtCancel>>

\* Lines 581-591: one sentinel per consumer, then return total_count.
ProducerPill ==
    /\ ppc = "pills"
    /\ ~QueueFull
    /\ queue' = Append(queue, None)
    /\ sent' = sent + 1
    /\ ppc' = IF sent + 1 = NUM_CONSUMERS THEN "done" ELSE "pills"
    /\ UNCHANGED <<sideVars, uploadVars, input, batches, storageVars, nRuns, runBatch, runUser, source_cache,
                   pos, pbatch, total_count, consumerVars, monitorVars,
                   coordVars, cancelVars, histVars>>

\* The parser or the source registry raises inside the loop.
ProducerFail ==
    /\ ppc = "loop"
    /\ ppc' = "failed"
    /\ UNCHANGED <<sideVars, uploadVars, input, batches, storageVars, nRuns, runBatch, runUser, source_cache,
                   pos, pbatch, total_count, sent, queue, consumerVars,
                   monitorVars, coordVars, cancelVars, histVars>>

(***************************************************************************)
(* Consumers (_consumer, _flush_batch, _insert_table,                      *)
(* _insert_workouts_and_routes).  Each insert commits in a session of its  *)
(* own, so each is one step.                                               *)
(***************************************************************************)
IndepTables(p) ==
    {t \in {"health", "category", "activity"} : p[t] # <<>>}

\* Faulty variant: the workouts insert starts without awaiting the gather of
\* the independent inserts.
ConsumerGet_NoGather(c) ==
    /\ cpc[c] = "get"
    /\ queue # <<>>
    /\ queue' = Tail(queue)
    /\ IF IsNone(Head(queue))
       THEN /\ cpc' = [cpc EXCEPT ![c] = "done"]
            /\ UNCHANGED <<cbatch, ctodo>>
       ELSE LET e == Head(queue)[1]
            IN  /\ cbatch' = [cbatch EXCEPT ![c] = e]
                /\ ctodo' = [ctodo EXCEPT ![c] = IndepTables(e.p)]
                /\ cpc' = [cpc EXCEPT ![c] =
                             IF e.p.workouts # <<>> \/ IndepTables(e.p) = {}
                             THEN "workouts" ELSE "indep"]
    /\ UNCHANGED <<sideVars, uploadVars, input, batches, storageVars, nRuns,
                   runBatch, runUser, producerVars, progress, monitorVars,
                   coordVars, cancelVars, histVars>>

\* Lines 602-605 and 623-633: take an entry; a sentinel ends the consumer.
ConsumerGet(c) ==
    /\ cpc[c] = "get"
    /\ queue # <<>>
    /\ queue' = Tail(queue)
    /\ IF IsNone(Head(queue))
       THEN /\ cpc' = [cpc EXCEPT ![c] = "done"]
            /\ UNCHANGED <<cbatch, ctodo>>
       ELSE LET e == Head(queue)[1]
            IN  /\ cbatch' = [cbatch EXCEPT ![c] = e]
                /\ ctodo' = [ctodo EXCEPT ![c] = IndepTables(e.p)]
                /\ cpc' = [cpc EXCEPT ![c] =
                             IF IndepTables(e.p) # {} THEN "indep" ELSE "workouts"]
    /\ UNCHANGED <<sideVars, uploadVars, input, batches, storageVars, nRuns, runBatch, runUser, producerVars,
                   progress, monitorVars, coordVars, cancelVars, histVars>>

\* Line 608 and the return to queue.get: the payload is flushed.
Flushed(c) ==
    /\ progress' = progress + PayloadLen(cbatch[c].p)
    /\ cpc' = [cpc EXCEPT ![c] = "get"]
    /\ cbatch' = [cbatch EXCEPT ![c] = NoEntry]
    /\ flushedN' = [flushedN EXCEPT ![cbatch[c].pid] = @ + 1]

Goto(c, label) ==
    /\ cpc' = [cpc EXCEPT ![c] = label]
    /\ UNCHANGED <<cbatch, progress, flushedN>>

\* The commit of one independent insert.
CommitTable(t, rows) ==
    /\ health' = IF t = "health" THEN bulk_insert_health_records(health, rows)
                 ELSE health
    /\ category' = IF t = "category"
                   THEN bulk_insert_category_records(category, rows)
                   ELSE category
    /\ activity' = IF t = "activity"
                   THEN bulk_insert_activity_summaries(activity, rows)
                   ELSE activity

\* _insert_table under asyncio.gather (lines 625-633, 649-653).
ConsumerInsert(c, t) ==
    /\ cpc[c] = "indep"
    /\ t \in ctodo[c]
    /\ CommitTable(t, cbatch[c].p[t])
    /\ ctodo' = [ctodo EXCEPT ![c] = @ \ {t}]
    /\ IF ctodo[c] # {t} THEN Goto(c, "indep")
       ELSE IF cbatch[c].p.workouts # <<>> THEN Goto(c, "workouts")
       ELSE Flushed(c)
    /\ UNCHANGED <<sideVars, uploadVars, input, batches, workouts, routes, dataSources, nRuns, runBatch, runUser,
                   producerVars, queue, monitorVars, coordVars, cancelVars,
                   enq, enqRecs, enqAtCancel, subFail, written>>

\* An independent insert raises: gather re-raises and the consumer fails;
\* the payload's other inserts stay in flight.
ConsumerInsertFail(c, t) ==
    /\ cpc[c] = "indep"
    /\ t \in ctodo[c]
    /\ cpc' = [cpc EXCEPT ![c] = "failed"]
    /\ ctodo' = [ctodo EXCEPT ![c] = @ \ {t}]
    /\ UNCHANGED <<sideVars, uploadVars, input, batches, storageVars, nRuns, runBatch, runUser, producerVars,
                   queue, cbatch, progress, monitorVars, coordVars, cancelVars,
                   histVars>>

\* An insert left in flight by a failed gather commits while the loop lives.
OrphanInsert(c, t) ==
    /\ cpc[c] = "failed"
    /\ t \in ctodo[c]
    /\ coordPc # "done"
    /\ CommitTable(t, cbatch[c].p[t])
    /\ ctodo' = [ctodo EXCEPT ![c] = @ \ {t}]
    /\ UNCHANGED <<sideVars, uploadVars, input, batches, workouts, routes, dataSources, nRuns, runBatch, runUser,
                   producerVars, queue, cpc, cbatch, progress, monitorVars,
                   coordVars, cancelVars, histVars>>

\* Lines 636-644 and 662-664: the workouts insert; an exception is logged.
ConsumerWorkouts(c) ==
    /\ cpc[c] = "workouts"
    /\ LET p == cbatch[c].p
           res == bulk_insert_workouts(workouts, p.workouts)
       IN  IF res.ok
           THEN /\ workouts' = res.table
                /\ subFail' = subFail
                /\ IF p.route_points # <<>> THEN Goto(c, "routes") ELSE Flushed(c)
           ELSE /\ workouts' = workouts
                /\ subFail' = subFail \cup {cbatch[c].pid}
                /\ Flushed(c)
    /\ UNCHANGED <<sideVars, uploadVars, input, batches, health, category, activity, routes, dataSources,
                   nRuns, runBatch, runUser, producerVars, queue, ctodo, monitorVars,
                   coordVars, cancelVars, enq, enqRecs, enqAtCancel, written>>

\* Faulty variant: the workouts insert runs outside the try block, so its
\* exception fails the consumer.
ConsumerWorkoutsFail_Raises(c) ==
    /\ cpc[c] = "workouts"
    /\ subFail' = subFail \cup {cbatch[c].pid}
    /\ cpc' = [cpc EXCEPT ![c] = "failed"]
    /\ UNCHANGED <<sideVars, uploadVars, input, batches, storageVars, nRuns, runBatch, runUser, producerVars,
                   queue, cbatch, ctodo, progress, monitorVars, coordVars,
                   cancelVars, enq, enqRecs, enqAtCancel, flushedN, written>>

\* The database fails the workouts insert.
ConsumerWorkoutsFail(c) ==
    /\ cpc[c] = "workouts"
    /\ subFail' = subFail \cup {cbatch[c].pid}
    /\ Flushed(c)
    /\ UNCHANGED <<sideVars, uploadVars, input, batches, storageVars, nRuns, runBatch, runUser, producerVars,
                   queue, ctodo, monitorVars, coordVars, cancelVars, enq, enqRecs, enqAtCancel, written>>

\* Lines 666-669: the route points, after the workouts committed.
ConsumerRoutes(c) ==
    /\ cpc[c] = "routes"
    /\ LET res == bulk_insert_workout_route_points(
                      routes, workouts, cbatch[c].p.route_points)
       IN  /\ routes' = IF res.ok THEN res.table ELSE routes
           /\ subFail' = IF res.ok THEN subFail ELSE subFail \cup {cbatch[c].pid}
    /\ Flushed(c)
    /\ UNCHANGED <<sideVars, uploadVars, input, batches, health, category, activity, workouts,
                   dataSources, nRuns, runBatch, runUser, producerVars, queue, ctodo,
                   monitorVars, coordVars, cancelVars, enq, enqRecs, enqAtCancel, written>>

\* The database fails the route-point insert.
ConsumerRoutesFail(c) ==
    /\ cpc[c] = "routes"
    /\ subFail' = subFail \cup {cbatch[c].pid}
    /\ Flushed(c)
    /\ UNCHANGED <<sideVars, uploadVars, input, batches, storageVars, nRuns, runBatch, runUser, producerVars,
                   queue, ctodo, monitorVars, coordVars, cancelVars, enq, enqRecs, enqAtCancel, written>>

(***************************************************************************)
(* Progress reporter (_progress_reporter).                                 *)
(***************************************************************************)
\* Lines 687-698: after the sleep, write the counter if it changed.
MonitorTick ==
    /\ mpc = "sleep"
    /\ IF progress # last_reported
       THEN /\ batches' = UpdateCount(batches, runBatch, progress)
            /\ last_reported' = progress
       ELSE UNCHANGED <<batches, last_reported>>
    /\ mpc' = "poll"
    /\ UNCHANGED <<sideVars, uploadVars, input, storageVars, nRuns, runBatch, runUser, producerVars, queue,
                   consumerVars, cancelled, coordVars, cancelVars, histVars>>

\* Lines 700-709: read the status; "cancelling" sets the flag and returns.
MonitorPoll ==
    /\ mpc = "poll"
    /\ IF runBatch \in DOMAIN batches /\ batches[runBatch].status = "cancelling"
       THEN cancelled' = TRUE /\ mpc' = "exited" /\ enqAtCancel' = enq
       ELSE cancelled' = cancelled /\ mpc' = "sleep" /\ enqAtCancel' = enqAtCancel
    /\ UNCHANGED <<sideVars, uploadVars, input, batches, storageVars, nRuns, runBatch, runUser, producerVars,
                   queue, consumerVars, last_reported, coordVars, cancelVars,
                   enq, enqRecs, flushedN, subFail, written>>

(***************************************************************************)
(* Coordinator (parse_health_export, lines 782-853).                       *)
(***************************************************************************)
ProducerFinished == ppc \in {"done", "failed"}

ConsumerFinished(c) == cpc[c] \in {"done", "failed"}

\* Faulty variant: only the producer's exception is looked at.
AnyFailed_ProducerOnly == ppc = "failed"

\* Lines 791-792: a finished task holds an exception.
AnyFailed == ppc = "failed" \/ \E c \in Consumers : cpc[c] = "failed"

\* Faulty variant: return_when=FIRST_COMPLETED.
WaitReturns_FirstCompleted ==
    \/ AnyFailed
    \/ ProducerFinished
    \/ \E c \in Consumers : ConsumerFinished(c)

\* Faulty variant: return_when=ALL_COMPLETED.
WaitReturns_AllCompleted ==
    ProducerFinished /\ \A c \in Consumers : ConsumerFinished(c)

\* asyncio.wait(..., return_when=FIRST_EXCEPTION) returns.
WaitReturns ==
    \/ AnyFailed
    \/ ProducerFinished /\ \A c \in Consumers : ConsumerFinished(c)

\* task.cancel() on the reporter: it runs no further statement.
CancelReporter == mpc' = IF mpc = "exited" THEN "exited" ELSE "cancelled"

\* Lines 791-798: a task raised; cancel the pending ones and re-raise.
CoordWaitFail ==
    /\ coordPc = "wait"
    /\ WaitReturns
    /\ AnyFailed
    /\ ppc' = IF ProducerFinished THEN ppc ELSE "cancelled"
    /\ cpc' = [c \in Consumers |->
                 IF ConsumerFinished(c) THEN cpc[c] ELSE "cancelled"]
    /\ ctodo' = [c \in Consumers |->
                   IF ConsumerFinished(c) THEN ctodo[c] ELSE {}]
    /\ CancelReporter
    /\ coordPc' = "write_failed"
    /\ UNCHANGED <<sideVars, uploadVars, input, batches, storageVars, nRuns, runBatch, runUser, source_cache,
                   pos, pbatch, total_count, sent, queue, cbatch, progress,
                   last_reported, cancelled, coord_total, raised, cancelVars,
                   histVars>>

\* Lines 802-819: every task returned; take the producer's count and stop
\* the reporter.
CoordWaitDone ==
    /\ coordPc = "wait"
    /\ WaitReturns
    /\ ~AnyFailed
    /\ coord_total' = total_count
    /\ CancelReporter
    /\ coordPc' = "write_final"
    /\ UNCHANGED <<sideVars, uploadVars, input, batches, storageVars, nRuns, runBatch, runUser, producerVars,
                   queue, consumerVars, last_reported, cancelled, raised,
                   cancelVars, histVars>>

\* Faulty variant: the final status is taken from the row as well as from
\* the flag.
CoordWriteFinal_ReadsRow ==
    LET final == IF cancelled \/ batches[runBatch].status = "cancelling"
                 THEN "cancelled" ELSE "completed"
    IN  /\ coordPc = "write_final"
        /\ batches' = UpdateStatus(batches, runBatch, final, coord_total)
        /\ written' = final
        /\ coordPc' = "done"
        /\ UNCHANGED <<sideVars, uploadVars, input, storageVars, nRuns, runBatch, runUser, producerVars, queue,
                       consumerVars, monitorVars, coord_total, raised, cancelVars,
                       enq, enqRecs, enqAtCancel, flushedN, subFail>>

\* Lines 822-829.
CoordWriteFinal ==
    /\ coordPc = "write_final"
    /\ batches' = UpdateStatus(batches, runBatch,
                               IF cancelled THEN "cancelled" ELSE "completed",
                               coord_total)
    /\ written' = IF cancelled THEN "cancelled" ELSE "completed"
    /\ coordPc' = "done"
    /\ UNCHANGED <<sideVars, uploadVars, input, storageVars, nRuns, runBatch, runUser, producerVars, queue,
                   consumerVars, monitorVars, coord_total, raised, cancelVars,
                   enq, enqRecs, enqAtCancel, flushedN, subFail>>

\* Lines 836-851: the best-effort failed status, then raise.
CoordWriteFailed ==
    /\ coordPc = "write_failed"
    /\ batches' = UpdateStatus(batches, runBatch, "failed", coord_total)
    /\ raised' = TRUE
    /\ written' = "failed"
    /\ coordPc' = "done"
    /\ UNCHANGED <<sideVars, uploadVars, input, storageVars, nRuns, runBatch, runUser, producerVars, queue,
                   consumerVars, monitorVars, coord_total, cancelVars, enq, enqRecs, enqAtCancel,
                   flushedN, subFail>>

(***************************************************************************)
(* Endpoints of api/ingestion.py.                                          *)
(***************************************************************************)
\* cancel_import_batch, lines 255-271: the SELECT and the status check.
CancelRead(b) ==
    /\ cancelPc = 0
    /\ b \in DOMAIN batches
    /\ IF batches[b].status # "processing"
       THEN cancelResp' = "409" /\ cancelPc' = 0
       ELSE cancelResp' = "none" /\ cancelPc' = b
    /\ UNCHANGED <<sideVars, uploadVars, input, batches, storageVars, nRuns, runBatch, runUser, producerVars,
                   queue, consumerVars, monitorVars, coordVars, histVars>>

\* cancel_import_batch, lines 273-280: the UPDATE and the commit.
CancelWrite ==
    /\ cancelPc # 0
    /\ batches' = IF cancelPc \in DOMAIN batches
                  THEN [batches EXCEPT ![cancelPc].status = "cancelling"]
                  ELSE batches
    /\ cancelResp' = "200"
    /\ cancelPc' = 0
    /\ UNCHANGED <<sideVars, uploadVars, input, storageVars, nRuns, runBatch, runUser, producerVars, queue,
                   consumerVars, monitorVars, coordVars, histVars>>

\* The deletes shared by delete_import_batch and reprocess_import_batch:
\* route points by workout id, workouts, samples, categoricals.
DeleteRows(b) ==
    LET wids == {w.id : w \in {x \in workouts : x.batch_id = b}}
    IN  /\ routes' = {r \in routes : r.workout_id \notin wids}
        /\ workouts' = {w \in workouts : w.batch_id # b}
        /\ health' = {r \in health : r.batch_id # b}
        /\ category' = {r \in category : r.batch_id # b}
        /\ UNCHANGED <<activity, dataSources>>

\* delete_import_batch, lines 290-328.
Delete(b) ==
    /\ b \in DOMAIN batches
    /\ batches[b].status \notin Active
    /\ DeleteRows(b)
    /\ batches' = [x \in DOMAIN batches \ {b} |-> batches[x]]
    /\ UNCHANGED <<sideVars, uploadVars, input, nRuns, runBatch, runUser, producerVars, queue, consumerVars,
                   monitorVars, coordVars, cancelVars, histVars>>

\* Faulty variant: the run is scheduled for the first account.
ReprocessUser_First(b) == User

\* reprocess_import_batch, lines 339-346 and 418-420: the user.id handed to
\* the run is that of the caller, whom the SELECT matched to the row.
ReprocessUser(b) == batches[b].user_id

\* reprocess_import_batch, lines 343-422, the stored file being present.
Reprocess(b) ==
    /\ NoRunActive
    /\ nRuns < MaxRuns
    /\ b \in DOMAIN batches
    /\ batches[b].status \notin Active
    /\ DeleteRows(b)
    /\ batches' = [batches EXCEPT ![b] = BatchRow(batches[b].user_id)]
    /\ StartRun(b, dataSources, ReprocessUser(b))
    /\ UNCHANGED <<sideVars, input, cancelVars, uploadVars>>

(***************************************************************************)
(* The upload endpoint (upload_health_data) and the zip extraction.        *)
(* A path is a sequence of names, a name a sequence of characters; the     *)
(* string of a path joins its names with "/".  A zip member is             *)
(* [abs, parts, kind]: whether its name starts with "/", the names of its  *)
(* path, and whether the name ends with "export.xml", with ".xml" or with  *)
(* neither.                                                                *)
(***************************************************************************)
ALLOWED_EXTENSIONS == {".xml", ".zip"}

DotDot == <<".", ".">>

Dot == <<".">>

\* settings.UPLOAD_DIR, resolved.
UploadDir == << <<"u">> >>

\* zip_path.parent / zip_path.stem, the stem being the batch id.
ExtractDir == UploadDir \o << <<"b">> >>

\* upload_dir / f"{batch_id}{suffix}".
UploadFile == UploadDir \o << <<"b", ".", "z">> >>

\* extract_dir / member: an absolute member replaces the directory.
Join(dir, m) == IF m.abs THEN m.parts ELSE dir \o m.parts

\* Path.resolve() where no name is a symbolic link: "." is dropped and ".."
\* removes the name before it.
RECURSIVE ResolveFrom(_, _)
ResolveFrom(acc, parts) ==
    IF parts = <<>> THEN acc
    ELSE LET c == Head(parts)
         IN  IF c = Dot \/ c = <<>> THEN ResolveFrom(acc, Tail(parts))
             ELSE IF c = DotDot
             THEN ResolveFrom(IF acc = <<>> THEN acc
                              ELSE SubSeq(acc, 1, Len(acc) - 1), Tail(parts))
             ELSE ResolveFrom(Append(acc, c), Tail(parts))

Resolve(path) == ResolveFrom(<<>>, path)

\* str(path) of an absolute path.
RECURSIVE Str(_)
Str(path) ==
    IF path = <<>> THEN <<>> ELSE <<"/">> \o Head(path) \o Str(Tail(path))

\* str.startswith, and the same test on sequences of names.
IsPrefix(a, b) == Len(a) <= Len(b) /\ SubSeq(b, 1, Len(a)) = a

\* Lines 66-70 of _extract_xml_from_zip: some member fails the prefix test.
TraversalDetected(members) ==
    LET resolved_base == Resolve(ExtractDir)
    IN  \E i \in DOMAIN members :
            LET target == Resolve(Join(ExtractDir, members[i]))
            IN  ~IsPrefix(Str(resolved_base), Str(target))

IsExport(m) == m.kind = "export"

IsXml(m) == m.kind \in {"export", "xml"}

\* Lines 72-77: the members named *export.xml, else the members named *.xml.
XmlCandidates(members) ==
    IF SelectSeq(members, IsExport) # <<>> THEN SelectSeq(members, IsExport)
    ELSE SelectSeq(members, IsXml)

IsName(c) == c # Dot /\ c # DotDot /\ c # <<>>

\* ZipFile.extractall: each member is written under the directory, its
\* leading "/" and its "." and ".." names removed.
Extracted(members) ==
    {ExtractDir \o SelectSeq(members[i].parts, IsName) : i \in DOMAIN members}

\* Faulty variant: the closing tag is not looked for.
_validate_xml_complete_Skipped(r) == TRUE

\* _validate_xml_complete: the closing tag is in the last 1024 bytes.
_validate_xml_complete(r) == r.complete

\* _extract_xml_from_zip: [error, files]; error is "" when it returns.  The
\* first candidate is opened under its member name, which is not where
\* extractall wrote it when the name holds "..".
_extract_xml_from_zip(r) ==
    IF r.badzip THEN [error |-> "BadZipFile", files |-> {}]
    ELSE IF TraversalDetected(r.members)
    THEN [error |-> "ValueError", files |-> {}]
    ELSE IF XmlCandidates(r.members) = <<>>
    THEN [error |-> "ValueError", files |-> {}]
    ELSE IF Resolve(Join(ExtractDir, XmlCandidates(r.members)[1]))
                \notin Extracted(r.members)
    THEN [error |-> "FileNotFoundError", files |-> Extracted(r.members)]
    ELSE IF ~_validate_xml_complete(r)
    THEN [error |-> "ValueError", files |-> Extracted(r.members)]
    ELSE [error |-> "", files |-> Extracted(r.members)]

mExport == [abs |-> FALSE, parts |-> << <<"e">> >>, kind |-> "export"]

mOther == [abs |-> FALSE, parts |-> << <<"r">> >>, kind |-> "other"]

\* "d/../e.xml": stays inside the extraction directory.
mInside == [abs |-> FALSE, parts |-> << <<"d">>, DotDot, <<"e">> >>, kind |-> "xml"]

\* "../e": the upload directory.
mUp == [abs |-> FALSE, parts |-> <<DotDot, <<"e">> >>, kind |-> "other"]

\* "../bx/e": a sibling directory whose name starts with the stem.
mSibling == [abs |-> FALSE, parts |-> <<DotDot, <<"b", "x">>, <<"e">> >>,
             kind |-> "other"]

\* "/t/e"
mAbs == [abs |-> TRUE, parts |-> << <<"t">>, <<"e">> >>, kind |-> "other"]

Archives ==
    { <<>>, <<mExport>>, <<mOther>>, <<mInside, mOther>>, <<mExport, mUp>>,
      <<mExport, mSibling>>, <<mAbs, mExport>> }

Requests ==
    [suffix : {".xml", ".zip", ".txt"}, oversize : BOOLEAN, badzip : BOOLEAN,
     members : Archives, complete : BOOLEAN]

Reject(code) ==
    /\ upc' = "rejected"
    /\ uploadResp' = code

\* The request arrives.
UploadReceive(r) ==
    /\ upc = "idle"
    /\ req' = r
    /\ upc' = "suffix"
    /\ UNCHANGED <<sideVars, input, batches, storageVars, nRuns, runBatch, runUser, producerVars,
                   queue, consumerVars, monitorVars, coordVars, cancelVars,
                   histVars, uploadResp, disk>>

\* Lines 124-129: the extension.
UploadCheckSuffix ==
    /\ upc = "suffix"
    /\ IF req.suffix \notin ALLOWED_EXTENSIONS
       THEN Reject("400")
       ELSE upc' = "stream" /\ uploadResp' = uploadResp
    /\ UNCHANGED <<sideVars, input, batches, storageVars, nRuns, runBatch, runUser, producerVars,
                   queue, consumerVars, monitorVars, coordVars, cancelVars,
                   histVars, req, disk>>

\* Lines 138-150: the file is streamed to disk; over the cap it is removed.
UploadStream ==
    /\ upc = "stream"
    /\ IF req.oversize
       THEN Reject("413") /\ disk' = disk
       ELSE upc' = "validate" /\ uploadResp' = uploadResp
            /\ disk' = disk \cup {UploadFile}
    /\ UNCHANGED <<sideVars, input, batches, storageVars, nRuns, runBatch, runUser, producerVars,
                   queue, consumerVars, monitorVars, coordVars, cancelVars,
                   histVars, req>>

\* Lines 153-170: extraction of a zip, or the check of a standalone XML;
\* BadZipFile and ValueError become a 400, any other exception a 500.
UploadValidate ==
    /\ upc = "validate"
    /\ IF req.suffix = ".zip"
       THEN LET res == _extract_xml_from_zip(req)
            IN  /\ disk' = disk \cup res.files
                /\ IF res.error \in {"BadZipFile", "ValueError"}
                   THEN Reject("400")
                   ELSE IF res.error # "" THEN Reject("500")
                   ELSE upc' = "commit" /\ uploadResp' = uploadResp
       ELSE /\ disk' = disk
            /\ IF ~_validate_xml_complete(req) THEN Reject("400")
               ELSE upc' = "commit" /\ uploadResp' = uploadResp
    /\ UNCHANGED <<sideVars, input, batches, storageVars, nRuns, runBatch, runUser, producerVars,
                   queue, consumerVars, monitorVars, coordVars, cancelVars,
                   histVars, req>>

\* Lines 172-186: the batch row, the background task, the 202 response.
UploadCommit ==
    /\ upc = "commit"
    /\ CreateBatch
    /\ upc' = "accepted"
    /\ uploadResp' = "202"
    /\ UNCHANGED <<req, disk>>

(***************************************************************************)
(* Specifications.                                                         *)
(***************************************************************************)
ProducerNext ==
    \/ ProducerStep \/ ProducerPutFull \/ ProducerFinal
    \/ ProducerPutFinal \/ ProducerPill

ConsumerNext ==
    \E c \in Consumers :
        \/ ConsumerGet(c)
        \/ \E t \in {"health", "category", "activity"} : ConsumerInsert(c, t)
        \/ ConsumerWorkouts(c)
        \/ ConsumerRoutes(c)

FailureNext ==
    \/ ProducerFail
    \/ \E c \in Consumers :
        \/ \E t \in {"health", "category", "activity"} :
              ConsumerInsertFail(c, t) \/ OrphanInsert(c, t)
        \/ ConsumerWorkoutsFail(c)
        \/ ConsumerRoutesFail(c)

MonitorNext == MonitorTick \/ MonitorPoll

CoordNext == CoordWaitFail \/ CoordWaitDone \/ CoordWriteFinal \/ CoordWriteFailed

CancelNext == CancelWrite \/ \E b \in BatchIds : CancelRead(b)

\* The first upload of the file.
FirstUpload == nRuns = 0 /\ Upload

\* One run of the pipeline under every interleaving of its tasks, of the
\* failures of the parser and the database, and of the cancel and delete
\* endpoints.
Next ==
    \/ FirstUpload
    \/ ProducerNext
    \/ ConsumerNext
    \/ FailureNext
    \/ MonitorNext
    \/ CoordNext
    \/ CancelNext
    \/ \E b \in BatchIds : Delete(b)

Spec == Init /\ [][Next]_vars

SubFailureNext ==
    \E c \in Consumers : ConsumerWorkoutsFail(c) \/ ConsumerRoutesFail(c)

\* Successive runs (uploads of the same file, reprocesses) with deletes of
\* finished batches in between and during later runs; the only failures are
\* those of the workout and route-point inserts.
NextStore ==
    \/ \E u \in Users : UploadBy(u)
    \/ ProducerNext
    \/ ConsumerNext
    \/ SubFailureNext
    \/ CoordWaitDone \/ CoordWriteFinal
    \/ \E b \in BatchIds : Delete(b) \/ Reprocess(b)

SpecStore == Init /\ [][NextStore]_vars

\* Two or more failure-free runs over the same stored file, nothing deleted
\* in between: a second upload of the file after the first run has ended.
NextRerun ==
    \/ Upload
    \/ ProducerNext
    \/ ConsumerNext
    \/ MonitorNext
    \/ CoordWaitDone \/ CoordWriteFinal

SpecRerun == Init /\ [][NextRerun]_vars

\* One upload request, valid or not, through the endpoint.
NextUpload ==
    \/ \E r \in Requests : UploadReceive(r)
    \/ UploadCheckSuffix
    \/ UploadStream
    \/ UploadValidate
    \/ UploadCommit

SpecUpload == Init /\ [][NextUpload]_vars

\* The steps of consumer c that the database lets succeed.
ConsumerStep(c) ==
    \/ ConsumerGet(c)
    \/ \E t \in {"health", "category", "activity"} : ConsumerInsert(c, t)
    \/ ConsumerWorkouts(c)
    \/ ConsumerRoutes(c)

\* One run with failures and cancellation, and nothing deleted.
NextFair ==
    \/ FirstUpload
    \/ ProducerNext
    \/ ConsumerNext
    \/ FailureNext
    \/ MonitorNext
    \/ CoordNext
    \/ CancelNext

\* The event loop runs every task that is ready: the producer, each
\* consumer and the coordinator take a step that stays possible.  Nothing
\* is assumed of the reporter, of the cancel endpoint or of the failures.
Fairness ==
    /\ WF_vars(ProducerNext)
    /\ \A c \in Consumers : WF_vars(ConsumerStep(c))
    /\ WF_vars(CoordNext)

SpecFair == Init /\ [][NextFair]_vars /\ Fairness

\* The variables of the pipeline and of the upload endpoint.
mainVars ==
    <<input, batches, storageVars, nRuns, runBatch, runUser, producerVars,
      queue, consumerVars, monitorVars, coordVars, cancelVars, histVars,
      uploadVars>>

(***************************************************************************)
(* The element processors as the producer calls them (lines 519-555).      *)
(***************************************************************************)
ParseRecord ==
    /\ pOut = NotParsed
    /\ pElem.tag = "Record"
    /\ pOut' = [tag |-> "Record",
                out |-> _process_record_element(pElem, User, 1, None)]
    /\ UNCHANGED <<pElem, rateVars, mainVars, auxVars>>

ParseWorkout ==
    /\ pOut = NotParsed
    /\ pElem.tag = "Workout"
    /\ pOut' = [tag |-> "Workout",
                out |-> _process_workout_element(pElem, User, 1, None)]
    /\ UNCHANGED <<pElem, rateVars, mainVars, auxVars>>

ParseSummary ==
    /\ pOut = NotParsed
    /\ pElem.tag = "ActivitySummary"
    /\ pOut' = [tag |-> "ActivitySummary",
                out |-> _process_activity_summary_element(pElem, User)]
    /\ UNCHANGED <<pElem, rateVars, mainVars, auxVars>>

InitParse ==
    /\ input = <<>>
    /\ PipelineIdle
    /\ pElem \in ParseInputs /\ pOut = NotParsed
    /\ RateIdle
    /\ AuxIdle

NextParse == ParseRecord \/ ParseWorkout \/ ParseSummary

\* One element, drawn from the elements above, through its processor.
SpecParse == InitParse /\ [][NextParse]_vars

(***************************************************************************)
(* check_rate_limit and the clock it reads.                                *)
(***************************************************************************)
\* Faulty variant: no timestamp is ever dropped.
Prune_KeepAll(timestamps, window_start) == timestamps

\* Line 27: [t for t in timestamps if t > window_start]
Prune(timestamps, window_start) ==
    SelectSeq(timestamps, LAMBDA t : t > window_start)

\* check_rate_limit for a request from ip; the function does not await, so
\* it runs as one step.
check_rate_limit(ip) ==
    /\ LET window_start == now - _WINDOW_SECONDS
           kept == Prune(_request_log[ip], window_start)
       IN  IF Len(kept) >= _MAX_REQUESTS
           THEN /\ _request_log' = [_request_log EXCEPT ![ip] = kept]
                /\ rateResp' = [ip |-> ip, code |-> "429",
                                seq |-> 1 - rateResp.seq]
                /\ UNCHANGED admitted
           ELSE /\ _request_log' = [_request_log EXCEPT ![ip] = Append(kept, now)]
                /\ rateResp' = [ip |-> ip, code |-> "200",
                                seq |-> 1 - rateResp.seq]
                /\ admitted' = [admitted EXCEPT ![ip] = Append(@, now)]
    /\ UNCHANGED <<now, parseVars, mainVars, auxVars>>

\* time.time() advances between two requests.
ClockTick ==
    /\ now < MaxClock
    /\ now' = now + 1
    /\ UNCHANGED <<_request_log, rateResp, admitted, parseVars, mainVars, auxVars>>

NextRate == ClockTick \/ \E ip \in IPs : check_rate_limit(ip)

\* Requests of two addresses against the limiter as the clock advances.
SpecRate == Init /\ [][NextRate]_vars

(***************************************************************************)
(* Properties.                                                             *)
(***************************************************************************)
Status(rows, b) == rows[b].status

\* C1: a batch row whose status is `cancelling` goes on to `cancelled` or
\* `failed`: no step of the system takes it to `completed` (or to any other
\* status), whatever the interleaving of the cancel endpoint, the reporter
\* and the coordinator's final write.
C1_CancellingEndsCancelledOrFailed ==
    [][\A b \in DOMAIN batches :
          Status(batches, b) = "cancelling"
              => /\ b \in DOMAIN batches'
                 /\ Status(batches', b) \in {"cancelling", "cancelled", "failed"}]_vars

\* C2: within one run the values written to the row's record_count never
\* decrease: every write of the reporter and the coordinator's final write
\* leave it at least as large as it was.
C2_RecordCountMonotonic ==
    [][\A b \in DOMAIN batches \cap DOMAIN batches' :
          nRuns' = nRuns
              => batches'[b].record_count >= batches[b].record_count]_vars

\* C3: a second run over the same input, nothing deleted in between, changes
\* no table (so the landed rows are those of the first run), ends with the
\* record_count of the first run, and no insert raises a unique violation.
Tables == <<health, category, activity, workouts, routes, dataSources>>

NoUniqueViolation ==
    \A c \in Consumers :
        cpc[c] = "workouts"
            => \A i \in 1..Len(cbatch[c].p.workouts) :
                   ~WorkoutPkViolation(workouts, cbatch[c].p.workouts[i])

C3_RerunIdempotent ==
    /\ [][nRuns >= 2 /\ nRuns' = nRuns => Tables' = Tables]_vars
    /\ [](NoUniqueViolation)
    /\ [](nRuns >= 2 /\ coordPc = "done" /\ runBatch \in DOMAIN batches
            => /\ Status(batches, runBatch) = "completed"
               /\ batches[runBatch].record_count = batches[1].record_count)

\* C3 witness: the second run has ended over an input that landed rows.
C3_Witness ==
    /\ nRuns = 2 /\ coordPc = "done"
    /\ health # {} /\ activity # {} /\ dataSources # <<>>

\* C4: in every state of storage every landed route point's workout_id is
\* the id of a landed workout.
C4_RoutePointsHaveWorkout ==
    \A r \in routes : \E w \in workouts : w.id = r.workout_id

\* C4 witness: a route-point insert has failed in a run that started after
\* another batch landed route points.
C4_Witness ==
    /\ routes # {} /\ subFail # {} /\ nRuns = 2
    /\ \E w \in workouts : w.batch_id = 1

\* C5: after a sample insert every sample of the payload is landed or was
\* skipped because a landed row agrees with it on all of (owner,
\* metric_type, time, value, source_id), and no two landed rows agree on
\* all five.
Agree5(row, r) ==
    /\ row.user_id = r.user_id
    /\ row.metric_type = r.metric_type
    /\ row.time = Instant(r.time)
    /\ row.value = r.value
    /\ row.source_id = r.source_id

HealthInsertBy(c) ==
    /\ cpc[c] = "indep"
    /\ "health" \in ctodo[c]
    /\ "health" \notin ctodo'[c]
    /\ cpc'[c] \notin {"failed", "cancelled"}

C5_SampleDedupOnFullKey ==
    [][\A c \in Consumers :
          HealthInsertBy(c)
              => /\ \A i \in 1..Len(cbatch[c].p.health) :
                        \E row \in health' : Agree5(row, cbatch[c].p.health[i])
                 /\ \A r1, r2 \in health' :
                        (/\ r1.user_id = r2.user_id
                         /\ r1.metric_type = r2.metric_type
                         /\ r1.time = r2.time
                         /\ r1.value = r2.value
                         /\ r1.source_id = r2.source_id) => r1 = r2]_vars

\* C6: a row whose status is completed, cancelled or failed never becomes
\* cancelling, and a cancel request answered with a conflict changes nothing.
C6_CancellingOnlyFromProcessing ==
    [][/\ \A b \in DOMAIN batches \cap DOMAIN batches' :
              Status(batches, b) \in Terminal
                  => Status(batches', b) # "cancelling"
       /\ (cancelResp' = "409" /\ cancelResp # "409") => batches' = batches]_vars

\* C7: once a row holds a terminal status none of its fields changes until a
\* reprocess resets it to processing or the batch is deleted.
C7_TerminalRowFrozen ==
    [][\A b \in DOMAIN batches \cap DOMAIN batches' :
          (/\ Status(batches, b) \in Terminal
           /\ ~(nRuns' = nRuns + 1 /\ batches'[b] = NewBatchRow))
              => batches'[b] = batches[b]]_vars

\* C8: once the producer or a consumer has raised, the run never writes
\* completed or cancelled; when the coordinator has left its wait every
\* other task and the reporter are stopped; and the run ends with status
\* failed written and the error re-raised.
SomeTaskRaised == ppc = "failed" \/ \E c \in Consumers : cpc[c] = "failed"

Stopped == {"done", "failed", "cancelled"}

C8_FirstExceptionFailsRun ==
    SomeTaskRaised
        => /\ coordPc \in {"wait", "write_failed", "done"}
           /\ written \in {"none", "failed"}
           /\ coordPc # "wait"
                => /\ ppc \in Stopped
                   /\ \A c \in Consumers : cpc[c] \in Stopped
                   /\ mpc \in {"cancelled", "exited"}
           /\ coordPc = "done" => written = "failed" /\ raised

\* C8 witness: a consumer raised while the producer was still running; the
\* producer was cancelled and the run ended failed with the error re-raised.
C8_Witness ==
    /\ \E c \in Consumers : cpc[c] = "failed"
    /\ ppc = "cancelled" /\ mpc = "cancelled"
    /\ written = "failed" /\ raised
    /\ runBatch \in DOMAIN batches /\ Status(batches, runBatch) = "failed"

\* C9: the step in which a payload's workout or route-point insert fails
\* does not fail the consumer: it returns to the queue with the payload
\* counted, the samples, categoricals and summaries of the payload are
\* landed and no table loses a row.
IndepLanded(p) ==
    /\ \A i \in 1..Len(p.health) : HealthConflict(health, p.health[i])
    /\ \A i \in 1..Len(p.category) : CategoryConflict(category, p.category[i])
    /\ \A i \in 1..Len(p.activity) : ActivityConflict(activity, p.activity[i])

C9_SubInsertFailureIsolated ==
    [][\A c \in Consumers :
          (cbatch[c].pid \notin subFail /\ cbatch[c].pid \in subFail')
              => /\ cpc'[c] = "get"
                 /\ progress' = progress + PayloadLen(cbatch[c].p)
                 /\ IndepLanded(cbatch[c].p)
                 /\ health' = health /\ category' = category
                 /\ activity' = activity
                 /\ workouts' = workouts /\ routes' = routes]_vars

\* C9 witness: a run in which a workout or route-point insert failed on a
\* payload that carried other rows has ended completed.
C9_Witness ==
    /\ written = "completed" /\ subFail # {}
    /\ health # {} /\ activity # {}

\* C10: when the run goes on to write completed or cancelled the queue is
\* empty, the producer has enqueued K sentinels, every consumer has taken
\* one and exited, and every payload enqueued was flushed exactly once; and
\* no payload is enqueued after the first sentinel.
Drained ==
    /\ queue = <<>>
    /\ ppc = "done" /\ sent = NUM_CONSUMERS
    /\ \A c \in Consumers : cpc[c] = "done"
    /\ \A pid \in 1..enq : flushedN[pid] = 1

C10_DrainedBeforeTerminal ==
    /\ []((coordPc = "write_final" \/ written \in {"completed", "cancelled"})
            => Drained)
    /\ [][(sent > 0 /\ nRuns' = nRuns) => enq' = enq]_vars

\* C10 witness: a cancelled run that enqueued a payload has ended.
C10_Witness ==
    /\ written = "cancelled" /\ enq >= 1 /\ Drained

(***************************************************************************)
(* Back-pressure and payload size.                                         *)
(***************************************************************************)
\* C11: the queue never holds more than MAX_QUEUE_DEPTH entries, and an
\* entry (payload or sentinel) is put, one at a time, only while the queue
\* holds fewer than MAX_QUEUE_DEPTH: with the queue full the producer
\* enqueues nothing until a consumer has taken an entry.
C11_QueueBounded ==
    /\ [](Len(queue) <= MAX_QUEUE_DEPTH)
    /\ [][Len(queue') > Len(queue) =>
            /\ Len(queue) < MAX_QUEUE_DEPTH
            /\ Len(queue') = Len(queue) + 1]_vars
    /\ [][(QueueFull /\ nRuns' = nRuns) => (enq' = enq /\ sent' = sent)]_vars

\* The producer holds a full payload and waits on a full queue.
C11_Witness ==
    /\ Len(queue) = MAX_QUEUE_DEPTH
    /\ ppc = "put_full"
    /\ PayloadLen(pbatch) >= BATCH_SIZE

\* C12: every payload in the queue holds at most BATCH_SIZE records, counted
\* over its five sub-lists.
C12_PayloadAtMostBatchSize ==
    \A i \in DOMAIN queue :
        ~IsNone(queue[i]) => PayloadLen(queue[i][1].p) <= BATCH_SIZE

(***************************************************************************)
(* The counts written with the terminal status.                            *)
(***************************************************************************)
\* C13: when the run has written `cancelled`, the record_count on its row is
\* the number of records in the payloads that were enqueued (all of them
\* flushed by then); records parsed into a payload that was never enqueued
\* are not counted.
C13_CancelledCountIsEnqueued ==
    (written = "cancelled" /\ runBatch \in DOMAIN batches) =>
        /\ \A pid \in 1..enq : flushedN[pid] = 1
        /\ batches[runBatch].record_count = enqRecs

\* The element is a Record, Workout or ActivitySummary that the classifier
\* turns into a row.
Classifiable(e) ==
    IF e.tag = "Record"
    THEN /\ e.startDate.kind = "date"
         /\ \/ e.type[1] = "HKQuantityTypeIdentifier" /\ e.value.kind = "num"
            \/ e.type[1] = "HKCategoryTypeIdentifier"
    ELSE e.startDate.kind = "date"

\* The element is one of the three kinds the classifier is said to skip.
Skippable(e) ==
    \/ e.tag = "Record" /\ e.startDate.kind # "date"
    \/ /\ e.tag = "Record"
       /\ e.type[1] = "HKQuantityTypeIdentifier"
       /\ e.value.kind # "num"
    \/ e.tag = "Workout" /\ e.startDate.kind # "date"

NClassified(in) == Cardinality({i \in DOMAIN in : Classifiable(in[i])})

NSkipped(in) == Cardinality({i \in DOMAIN in : Skippable(in[i])})

\* C14: when the run has written `completed`, record_count is the number of
\* classifiable elements of the input (0 when there is none) and
\* record_count + skipped_count is at most the number of elements.
C14_CompletedCountIsClassified ==
    (written = "completed" /\ runBatch \in DOMAIN batches) =>
        /\ batches[runBatch].record_count = NClassified(input)
        /\ batches[runBatch].record_count + batches[runBatch].skipped_count
               <= Len(input)

\* A completed run over an input with a skipped and a classified element.
C14_Witness ==
    /\ written = "completed"
    /\ runBatch \in DOMAIN batches
    /\ NClassified(input) > 0
    /\ NClassified(input) < Len(input)
    /\ batches[runBatch].record_count = NClassified(input)

\* C15: when the run has written `completed`, skipped_count is the number
\* of elements the classifier skipped.
C15_SkippedCounted ==
    (written = "completed" /\ runBatch \in DOMAIN batches) =>
        batches[runBatch].skipped_count = NSkipped(input)

(***************************************************************************)
(* Independence of the consumers' order.                                   *)
(***************************************************************************)
EmptyTables ==
    [health |-> {}, category |-> {}, activity |-> {}, workouts |-> {},
     routes |-> {}]

\* _flush_batch by a single consumer with no other writer: the independent
\* inserts, then the workouts, then their route points.
FlushSeq(T, p) ==
    LET w == IF p.workouts # <<>>
             THEN bulk_insert_workouts(T.workouts, p.workouts)
             ELSE [ok |-> FALSE, table |-> T.workouts]
        r == IF w.ok /\ p.route_points # <<>>
             THEN bulk_insert_workout_route_points(T.routes, w.table,
                                                   p.route_points)
             ELSE [ok |-> FALSE, table |-> T.routes]
    IN  [health |-> IF p.health # <<>>
                    THEN bulk_insert_health_records(T.health, p.health)
                    ELSE T.health,
         category |-> IF p.category # <<>>
                      THEN bulk_insert_category_records(T.category, p.category)
                      ELSE T.category,
         activity |-> IF p.activity # <<>>
                      THEN bulk_insert_activity_summaries(T.activity, p.activity)
                      ELSE T.activity,
         workouts |-> IF w.ok THEN w.table ELSE T.workouts,
         routes |-> IF r.ok THEN r.table ELSE T.routes]

\* The run with one consumer: the producer's payloads flushed one after
\* the other in the order they are enqueued.
RECURSIVE SeqRun(_, _, _, _, _, _, _)
SeqRun(in, i, batch, cache, ds, T, b) ==
    IF i > Len(in)
    THEN IF PayloadLen(batch) > 0 THEN FlushSeq(T, batch) ELSE T
    ELSE LET src == ResolveSource(cache, ds, in[i])
             res == Classify(batch, 0, in[i], User, b, src.id)
         IN  IF PayloadLen(res.batch) >= BATCH_SIZE
             THEN SeqRun(in, i + 1, EmptyPayload, src.cache, src.ds,
                         FlushSeq(T, res.batch), b)
             ELSE SeqRun(in, i + 1, res.batch, src.cache, src.ds, T, b)

\* C16: the rows landed by a failure-free run on empty storage do not depend
\* on the order in which the consumers flush: whatever the interleaving,
\* the completed run has landed the rows that flushing the payloads one
\* after the other lands.
C16_LandedRowsOrderIndependent ==
    (nRuns = 1 /\ written = "completed") =>
        LET T == SeqRun(input, 1, EmptyPayload, {}, <<>>, EmptyTables, runBatch)
        IN  /\ health = T.health
            /\ category = T.category
            /\ activity = T.activity
            /\ workouts = T.workouts
            /\ routes = T.routes

(***************************************************************************)
(* The workout id.                                                         *)
(***************************************************************************)
\* The two Workout elements have parseable starts denoting the same instant
\* and the same activity type (the owner is the same in one export).
SameWorkoutKey(e1, e2) ==
    /\ e1.tag = "Workout" /\ e2.tag = "Workout"
    /\ e1.startDate.kind = "date" /\ e2.startDate.kind = "date"
    /\ e1.startDate.a - e1.startDate.b = e2.startDate.a - e2.startDate.b
    /\ e1.type = e2.type

\* C17: two Workout elements that the producer has classified, with the
\* same owner, activity type and start instant, got the same id; a workout
\* that a consumer is about to insert carries the id of the landed workout
\* it conflicts with on (owner_id, time, activity_type); and the route
\* points that a consumer is about to insert reference a landed workout.
C17_WorkoutIdFromKey ==
    /\ \A i, j \in 1..(pos - 1) :
          (nRuns > 0 /\ SameWorkoutKey(input[i], input[j])) =>
              _process_workout_element(input[i], User, runBatch, None)[1].id
                  = _process_workout_element(input[j], User, runBatch, None)[1].id
    /\ \A c \in Consumers :
          cpc[c] = "workouts" =>
              \A i \in DOMAIN cbatch[c].p.workouts :
                  \A w \in workouts :
                      LET r == cbatch[c].p.workouts[i]
                      IN  (/\ w.user_id = r.user_id
                           /\ w.activity_type = r.activity_type
                           /\ w.time = Instant(r.time[1])) => w.id = r.id
    /\ \A c \in Consumers :
          cpc[c] = "routes" =>
              \A i \in DOMAIN cbatch[c].p.route_points :
                  \E w \in workouts :
                      w.id = cbatch[c].p.route_points[i].workout_id

(***************************************************************************)
(* Upload validation.                                                      *)
(***************************************************************************)
\* The request has one of the defects an upload is rejected for: an
\* unsupported extension, a size over the cap, a bad archive, an archive
\* without an XML member, an XML without the closing tag.
Defective(r) ==
    \/ r.suffix \notin {".xml", ".zip"}
    \/ r.oversize
    \/ /\ r.suffix = ".zip"
       /\ \/ r.badzip
          \/ \A i \in DOMAIN r.members : r.members[i].kind = "other"
    \/ ~r.complete

\* C18: a rejected upload has created no batch row and scheduled no run; a
\* request with one of the defects never reaches the row creation; and the
\* only step that creates a row is the last one of a request that passed
\* every validation, the row being `processing` with record_count 0.
C18_RejectedUploadCreatesNothing ==
    /\ [](upc = "rejected" =>
            batches = <<>> /\ nRuns = 0 /\ coordPc = "idle")
    /\ []((upc # "idle" /\ Defective(req)) =>
            /\ upc \notin {"commit", "accepted"}
            /\ batches = <<>> /\ nRuns = 0)
    /\ [][batches' # batches =>
            /\ upc = "commit" /\ upc' = "accepted"
            /\ ~Defective(req)
            /\ nRuns' = 1 /\ coordPc' = "wait"
            /\ DOMAIN batches' = {1}
            /\ batches'[1].status = "processing"
            /\ batches'[1].record_count = 0]_vars

\* A zip whose XML member lacks the closing tag was extracted and rejected.
C18_Witness ==
    /\ upc = "rejected"
    /\ uploadResp = "400"
    /\ req.suffix = ".zip"
    /\ ~req.complete
    /\ disk # {UploadFile}
    /\ batches = <<>>

\* The member's resolved target lies outside the extraction directory.
Escapes(m) ==
    ~IsPrefix(Resolve(ExtractDir), Resolve(Join(ExtractDir, m)))

\* C19: a readable zip with a member whose resolved target lies outside the
\* extraction directory is rejected with nothing extracted, and every file
\* the extraction writes is inside the extraction directory.
C19_ZipTraversalRejected ==
    /\ [][(/\ upc = "validate"
           /\ upc' # "validate"
           /\ req.suffix = ".zip"
           /\ ~req.badzip
           /\ \E i \in DOMAIN req.members : Escapes(req.members[i]))
          => (upc' = "rejected" /\ disk' = disk)]_vars
    /\ [](\A f \in disk \ {UploadFile} : IsPrefix(ExtractDir, f))

(***************************************************************************)
(* The cancel flag and the producer.                                       *)
(***************************************************************************)
\* The flag is set by the reporter's poll alone and stays set for the run.
FlagMonitorOnly ==
    [][nRuns' = nRuns =>
         /\ cancelled => cancelled'
         /\ cancelled' # cancelled => (mpc = "poll" /\ mpc' = "exited")]_vars

\* With the flag set, at most one payload more than before is enqueued, and
\* the producer that returned has enqueued NUM_CONSUMERS sentinels.
AtMostOneMorePayload ==
    /\ [](cancelled => enq <= enqAtCancel + 1)
    /\ [](ppc = "done" => sent = NUM_CONSUMERS)
    /\ [][(cancelled /\ nRuns' = nRuns /\ ppc = "final") =>
             (ppc' # "put_final" /\ enq' = enq)]_vars

\* C20 (as stated): with the flag set the producer enqueues at most one more
\* payload and no partially built payload, then NUM_CONSUMERS sentinels;
\* the flag is written by the monitor alone and never cleared in the run.
C20_NoPartialPayloadAfterFlag ==
    /\ AtMostOneMorePayload
    /\ FlagMonitorOnly
    /\ [][(cancelled /\ nRuns' = nRuns /\ enq' > enq) =>
             PayloadLen(pbatch) >= BATCH_SIZE]_vars

\* C20 (amended): as stated, but a partially built payload is still enqueued
\* with the flag set when its put was already waiting on a full queue,
\* its guard having been passed before the flag was set; no put of a
\* partial payload begins with the flag set.
C20_NoPartialPutBeginsAfterFlag ==
    /\ AtMostOneMorePayload
    /\ FlagMonitorOnly
    /\ [][(cancelled /\ nRuns' = nRuns /\ enq' > enq) =>
             (PayloadLen(pbatch) >= BATCH_SIZE \/ ppc = "put_final")]_vars

\* The flag was set, one more payload was enqueued, then the sentinels.
C20_Witness ==
    /\ cancelled
    /\ enq = enqAtCancel + 1
    /\ ppc = "done"
    /\ sent = NUM_CONSUMERS

\* C21: when the producer has raised and no consumer has, no consumer is
\* cancelled while a payload is queued or in its hands, and every payload
\* the producer had enqueued has been flushed once the run has written
\* failed.
C21_ProducerFailureDrains ==
    (ppc = "failed" /\ \A c \in Consumers : cpc[c] # "failed")
        => /\ \A c \in Consumers :
                  cpc[c] = "cancelled" => queue = <<>> /\ cbatch[c] = NoEntry
           /\ written = "failed" => \A pid \in 1..enq : flushedN[pid] = 1

\* C22: a run that has written its terminal status after a workout or
\* route-point insert failed leaves error_count above zero on its row.
C22_SubFailureCounted ==
    (/\ written # "none"
     /\ subFail # {}
     /\ runBatch \in DOMAIN batches
     /\ Status(batches, runBatch) = written)
        => batches[runBatch].error_count > 0

\* C23: a row the run has marked failed carries a diagnostic message in
\* error_messages.
C23_FailedHasMessage ==
    (/\ written = "failed"
     /\ runBatch \in DOMAIN batches
     /\ Status(batches, runBatch) = "failed")
        => ~IsNone(batches[runBatch].error_messages)

\* C24: in every state each landed sample, categorical and workout names
\* in batch_id a batch whose row exists and whose owner is the row's own
\* user.
OwnedByBatch(r) ==
    /\ r.batch_id \in DOMAIN batches
    /\ batches[r.batch_id].user_id = r.user_id

ProducerStepped ==
    /\ ppc = "loop"
    /\ ppc' \in {"loop", "put_full", "final"}

AddedSourceIds ==
    {pbatch'.health[i].source_id :
        i \in (Len(pbatch.health) + 1)..Len(pbatch'.health)}
    \cup {pbatch'.category[i].source_id :
            i \in (Len(pbatch.category) + 1)..Len(pbatch'.category)}
    \cup {pbatch'.workouts[i].source_id :
            i \in (Len(pbatch.workouts) + 1)..Len(pbatch'.workouts)}

C25_RegistryAppendOnly ==
    [][/\ nRuns' = nRuns
          => /\ source_cache \subseteq source_cache'
             /\ \A e1, e2 \in source_cache' : e1.key = e2.key => e1.id = e2.id
       /\ Len(dataSources') >= Len(dataSources)
       /\ \A i \in 1..Len(dataSources) : dataSources'[i] = dataSources[i]
       /\ ProducerStepped
          => LET elem == input[pos]
                 hit == {e \in source_cache : e.key = SourceKey(elem)}
             IN  /\ IsNone(elem.sourceName)
                    => /\ dataSources' = dataSources
                       /\ source_cache' = source_cache
                       /\ AddedSourceIds \subseteq {None}
                 /\ (~IsNone(elem.sourceName) /\ hit # {})
                    => /\ dataSources' = dataSources
                       /\ source_cache' = source_cache
                       /\ AddedSourceIds \subseteq {Some(e.id) : e \in hit}]_vars

\* C25 witness: a second run over a file with two sources, one of them
\* named twice, has ended with the two rows of the first run in
\* data_sources and its registry holding both.
C25_Witness ==
    /\ nRuns = 2 /\ written = "completed"
    /\ Len(dataSources) = 2
    /\ Cardinality(source_cache) = 2
    /\ \E r \in health : r.source_id = Some(1) /\ r.batch_id = 1
    /\ \E r \in health : r.source_id = Some(2)

\* C26: a Record element yields a quantitative sample exactly when its type
\* starts with the quantitative prefix and its startDate parses and its
\* value is a number, a categorical sample exactly when its type starts
\* with the categorical prefix and its startDate parses, and nothing
\* otherwise; the type name emitted is the type without the prefix.
Yields(kind) == ~IsNone(pOut.out) /\ pOut.out[1][1] = kind

C26_RecordClassification ==
    pOut.tag = "Record"
        => LET quantitative == /\ pElem.type[1] = "HKQuantityTypeIdentifier"
                               /\ pElem.startDate.kind = "date"
                               /\ pElem.value.kind = "num"
               categorical == /\ pElem.type[1] = "HKCategoryTypeIdentifier"
                              /\ pElem.startDate.kind = "date"
           IN  /\ Yields("health") <=> quantitative
               /\ Yields("category") <=> categorical
               /\ IsNone(pOut.out) <=> ~quantitative /\ ~categorical
               /\ Yields("health")
                    => /\ pOut.out[1][2].metric_type = <<pElem.type[2]>>
                       /\ pOut.out[1][2].value = pElem.value.a
               /\ Yields("category")
                    => pOut.out[1][2].category_type = <<pElem.type[2]>>

\* C26 witness: a quantitative Record with a parseable date and a number
\* was classified.
C26_Witness ==
    /\ pOut.tag = "Record"
    /\ Yields("health")
    /\ pElem.value = NumAttr(1)

\* C27: a normalised field is absent when the element lacks the value or
\* the unit, holds the raw value when the unit is not a recognised one, and
\* the value times the unit's factor otherwise.
Normalised(value, unit, factors, stored) ==
    IF value.kind # "num" \/ IsNone(unit) THEN IsNone(stored)
    ELSE IF StripLower(unit[1]) \notin DOMAIN factors
    THEN stored = Some(Thousandths(value.a))
    ELSE stored = Some(value.a * factors[StripLower(unit[1])])

EnergyFactors ==
    [kcal |-> _KCAL_TO_KJ, cal |-> _KCAL_TO_KJ, kj |-> Thousandths(1)]

DistanceFactors ==
    [km |-> _KM_TO_M, mi |-> _MI_TO_M, m |-> Thousandths(1)]

DurationFactors ==
    [min |-> _MIN_TO_SEC, hr |-> _HR_TO_SEC, s |-> Thousandths(1)]

C27_NormalisedFields ==
    /\ pOut.tag = "Workout"
         => LET w == pOut.out[1]
            IN  /\ Normalised(pElem.duration, pElem.durationUnit,
                              DurationFactors, w.duration_sec)
                /\ Normalised(pElem.totalDistance, pElem.totalDistanceUnit,
                              DistanceFactors, w.total_distance_m)
                /\ Normalised(pElem.totalEnergyBurned,
                              pElem.totalEnergyBurnedUnit,
                              EnergyFactors, w.total_energy_kj)
    /\ (pOut.tag = "ActivitySummary" /\ ~IsNone(pOut.out))
         => LET a == pOut.out[1]
            IN  /\ Normalised(pElem.activeEnergyBurned,
                              pElem.activeEnergyBurnedUnit,
                              EnergyFactors, a.active_energy_burned_kj)
                /\ Normalised(pElem.activeEnergyBurnedGoal,
                              pElem.activeEnergyBurnedUnit,
                              EnergyFactors, a.active_energy_goal_kj)

\* C28: a request is answered 429 exactly when _MAX_REQUESTS requests of
\* its address were admitted less than _WINDOW_SECONDS before it; a rejected
\* request is recorded nowhere and an admitted one once; nothing of another
\* address changes; and no window of _WINDOW_SECONDS holds more than
\* _MAX_REQUESTS admitted requests of one address.
Recent(ip, t) ==
    Cardinality({i \in 1..Len(admitted[ip]) :
                    admitted[ip][i] > t - _WINDOW_SECONDS /\ admitted[ip][i] <= t})

C28_RateLimitPerAddress ==
    [][rateResp'.seq # rateResp.seq
          => LET ip == rateResp'.ip
             IN  /\ rateResp'.code = "429" <=> Recent(ip, now) = _MAX_REQUESTS
                 /\ rateResp'.code = "429"
                      => /\ admitted' = admitted
                         /\ Len(_request_log'[ip]) <= Len(_request_log[ip])
                         /\ \A i \in 1..Len(_request_log'[ip]) :
                                \E j \in 1..Len(_request_log[ip]) :
                                    _request_log'[ip][i] = _request_log[ip][j]
                 /\ rateResp'.code = "200"
                      => admitted'[ip] = Append(admitted[ip], now)
                 /\ \A other \in IPs \ {ip} :
                        /\ _request_log'[other] = _request_log[other]
                        /\ admitted'[other] = admitted[other]
                 /\ \A a \in IPs : \A t \in 0..MaxClock :
                        Cardinality({i \in 1..Len(admitted'[a]) :
                                        /\ admitted'[a][i] > t - _WINDOW_SECONDS
                                        /\ admitted'[a][i] <= t})
                            <= _MAX_REQUESTS]_vars

\* C28 witness: an address that was admitted more often than the limit over
\* time is being rejected while the other address has been admitted.
C28_Witness ==
    /\ rateResp.code = "429"
    /\ Len(admitted[rateResp.ip]) > _MAX_REQUESTS
    /\ \E other \in IPs \ {rateResp.ip} : admitted[other] # <<>>

\* C29: a consumer is at its workouts insert, or past it, only with every
\* sample, categorical and summary insert of its payload committed; it is
\* at its route-point insert only with the payload's workouts committed and
\* their insert not failed; and the workouts and route-point tables gain
\* rows only in such a step.
WorkoutsLanded(p) ==
    \A i \in 1..Len(p.workouts) : WorkoutConflict(workouts, p.workouts[i])

AtWorkouts(c) ==
    /\ cpc[c] = "workouts"
    /\ ctodo[c] = {}
    /\ IndepLanded(cbatch[c].p)

AtRoutes(c) ==
    /\ cpc[c] = "routes"
    /\ ctodo[c] = {}
    /\ IndepLanded(cbatch[c].p)
    /\ WorkoutsLanded(cbatch[c].p)
    /\ cbatch[c].pid \notin subFail

C29_FlushOrder ==
    [][/\ \A c \in Consumers :
              /\ cpc[c] = "workouts" => AtWorkouts(c)
              /\ cpc[c] = "routes" => AtRoutes(c)
       /\ workouts' \ workouts # {}
              => \E c \in Consumers : AtWorkouts(c) /\ cpc'[c] # "workouts"
       /\ routes' \ routes # {}
              => \E c \in Consumers : AtRoutes(c) /\ cpc'[c] # "routes"]_vars

\* C29 witness: a consumer stands at the route-point insert of a payload
\* that also carried a sample.
C29_Witness ==
    \E c \in Consumers :
        /\ cpc[c] = "routes"
        /\ cbatch[c].p.health # <<>>
        /\ cbatch[c].p.route_points # <<>>

\* C30: a scheduled run always comes to write a terminal status: failed,
\* or completed or cancelled with the producer returned and every consumer
\* exited.
RunEnded ==
    \/ written = "failed"
    \/ /\ written \in {"completed", "cancelled"}
       /\ ppc = "done"
       /\ \A c \in Consumers : cpc[c] = "done"

C30_RunTerminates == (coordPc = "wait") ~> RunEnded

\* C30 witness: every consumer raised while the producer waited on the full
\* queue; the producer was cancelled with the queue still full and the run
\* wrote failed.
C30_Witness ==
    /\ written = "failed"
    /\ ppc = "cancelled"
    /\ Len(queue) = MAX_QUEUE_DEPTH
    /\ \A c \in Consumers : cpc[c] = "failed"

(***************************************************************************)
(* Database failures inside the progress monitor (_progress_reporter,      *)
(* lines 689-711).  The inner try encloses the write and the status poll;  *)
(* "except Exception" logs and the loop goes back to the sleep.            *)
(***************************************************************************)
MaxMonErrs == 2

\* Faulty variant: last_reported is assigned before the commit is known to
\* have succeeded.
MonitorTickFail_Advances ==
    /\ mpc = "sleep"
    /\ progress # last_reported
    /\ monErrs < MaxMonErrs
    /\ monErrs' = monErrs + 1
    /\ pendingFail' = progress
    /\ last_reported' = progress
    /\ mpc' = "sleep"
    /\ UNCHANGED <<parseVars, rateVars, auxNotMon, uploadVars, input, batches, storageVars, nRuns,
                   runBatch, runUser, producerVars, queue, consumerVars,
                   cancelled, coordVars, cancelVars, histVars>>

\* Lines 691-698 raise (execute or commit): the row and last_reported keep
\* their values, the status poll of this iteration is skipped.
MonitorTickFail ==
    /\ mpc = "sleep"
    /\ progress # last_reported
    /\ monErrs < MaxMonErrs
    /\ monErrs' = monErrs + 1
    /\ pendingFail' = progress
    /\ mpc' = "sleep"
    /\ UNCHANGED <<parseVars, rateVars, auxNotMon, uploadVars, input, batches, storageVars, nRuns,
                   runBatch, runUser, producerVars, queue, consumerVars,
                   last_reported, cancelled, coordVars, cancelVars, histVars>>

\* Lines 701-706 raise: the status is not read in this iteration.
MonitorPollFail ==
    /\ mpc = "poll"
    /\ monErrs < MaxMonErrs
    /\ monErrs' = monErrs + 1
    /\ mpc' = "sleep"
    /\ UNCHANGED <<parseVars, rateVars, auxNotMon, uploadVars, input, batches, storageVars, nRuns,
                   runBatch, runUser, producerVars, queue, consumerVars,
                   last_reported, cancelled, coordVars, cancelVars, histVars,
                   pendingFail>>

MonitorFaultNext == MonitorTickFail \/ MonitorPollFail

\* One run whose monitor may fail on any of its database calls.
NextMonFault ==
    \/ FirstUpload
    \/ ProducerNext
    \/ ConsumerNext
    \/ ProducerFail
    \/ MonitorNext
    \/ MonitorFaultNext
    \/ CoordNext
    \/ CancelNext

SpecMonFault == Init /\ [][NextMonFault]_vars

MonitorErrorStep == monErrs' # monErrs

\* C31: a failing progress write or status poll inside the monitor changes
\* nothing but the monitor's position: no task is failed or stopped, the
\* batch row and last_reported keep their values and the monitor goes back
\* to its sleep; last_reported advances only together with a committed
\* write of that value, so the next tick that still sees a difference
\* writes the current progress.
C31_MonitorErrorsSwallowed ==
    [][ /\ MonitorErrorStep =>
            /\ mpc' = "sleep"
            /\ UNCHANGED <<batches, storageVars, last_reported, cancelled,
                           producerVars, queue, consumerVars, coordVars>>
        /\ (last_reported' # last_reported /\ nRuns' = nRuns) =>
            /\ runBatch \in DOMAIN batches'
            /\ batches'[runBatch].record_count = last_reported'
            /\ last_reported' = progress
        /\ (mpc = "sleep" /\ mpc' = "poll" /\ progress # last_reported) =>
            /\ last_reported' = progress
            /\ batches'[runBatch].record_count = progress
      ]_vars

\* A write failed and a later tick has written a value at least as recent.
C31_Witness ==
    /\ pendingFail > 0
    /\ last_reported >= pendingFail
    /\ mpc = "poll"
    /\ batches[runBatch].record_count = last_reported
    /\ ~SomeTaskRaised

OnlyCountDiffers(b) ==
    /\ DOMAIN batches' = DOMAIN batches
    /\ \A x \in DOMAIN batches :
          \/ batches'[x] = batches[x]
          \/ x = b /\ batches'[x] = [batches[x] EXCEPT !.record_count = progress]

\* C32: the monitor writes the batch row only on a tick where the progress
\* differs from the value it last wrote successfully, and such a write
\* changes record_count of the run's row and nothing else; every other
\* monitor step leaves the table alone.
C32_MonitorWritesCountOnly ==
    [][ ((mpc' # mpc \/ MonitorErrorStep) /\ nRuns' = nRuns) =>
            /\ OnlyCountDiffers(runBatch)
            /\ batches' # batches =>
                  /\ mpc = "sleep" /\ mpc' = "poll"
                  /\ progress # last_reported
            /\ (mpc = "sleep" /\ progress = last_reported) => batches' = batches
      ]_vars

\* The monitor has written a count while a cancel request was pending.
C32_Witness ==
    /\ mpc = "poll"
    /\ last_reported > 0
    /\ batches[runBatch].status = "cancelling"
    /\ batches[runBatch].record_count = last_reported

(***************************************************************************)
(* Source resolution by concurrent runs.  Each run owns a cache and its    *)
(* own sessions (xml_parser.py lines 248-296, 505-517); data_sources has   *)
(* the unique constraint (name, bundle_id) with bundle_id nullable         *)
(* (models/data_source.py lines 9-16), under which NULLs never conflict.   *)
(***************************************************************************)
SrcRest == <<mainVars, parseVars, rateVars, auxNotSrc>>

SrcMatching(key) == {row \in srcRows : row.key = key}

\* _DataSourceCache.warm at the start of the run, and the first element
\* that names a source.
SrcWarm(r) ==
    /\ rpc[r] = "idle"
    /\ rCache' = [rCache EXCEPT ![r] = srcRows]
    /\ \E k \in SrcKeys : rKey' = [rKey EXCEPT ![r] = k]
    /\ rpc' = [rpc EXCEPT ![r] = "lookup"]
    /\ UNCHANGED <<srcRows, srcSeq, rId, SrcRest>>

\* Lines 510-512: the cache fast path.
SrcLookup(r) ==
    /\ rpc[r] = "lookup"
    /\ LET hit == {row \in rCache[r] : row.key = rKey[r]}
       IN  IF hit # {}
           THEN /\ rId' = [rId EXCEPT ![r] = (CHOOSE row \in hit : TRUE).id]
                /\ rpc' = [rpc EXCEPT ![r] = "done"]
           ELSE /\ rId' = rId
                /\ rpc' = [rpc EXCEPT ![r] = "select"]
    /\ UNCHANGED <<srcRows, srcSeq, rKey, rCache, SrcRest>>

\* Lines 279-286: the SELECT sees the committed rows; scalar_one_or_none
\* raises when more than one row matches.
SrcSelect(r) ==
    /\ rpc[r] = "select"
    /\ LET found == SrcMatching(rKey[r])
       IN  CASE found = {} ->
                  /\ rId' = rId
                  /\ rpc' = [rpc EXCEPT ![r] = "insert"]
             [] Cardinality(found) = 1 ->
                  /\ rId' = [rId EXCEPT ![r] = (CHOOSE row \in found : TRUE).id]
                  /\ rpc' = [rpc EXCEPT ![r] = "done"]
             [] OTHER ->
                  /\ rId' = rId
                  /\ rpc' = [rpc EXCEPT ![r] = "failed"]
    /\ UNCHANGED <<srcRows, srcSeq, rKey, rCache, SrcRest>>

\* Another run's uncommitted row with the same non-NULL key: the INSERT
\* waits for that transaction to end.
SrcBlocked(r) ==
    /\ ~IsNone(rKey[r][2])
    /\ \E o \in Resolvers \ {r} : rpc[o] = "flushed" /\ rKey[o] = rKey[r]

\* Lines 288-293: add and flush.  A committed row with the same non-NULL
\* key violates uq_data_source_name_bundle and the flush raises.
SrcInsert(r) ==
    /\ rpc[r] = "insert"
    /\ ~SrcBlocked(r)
    /\ IF ~IsNone(rKey[r][2]) /\ SrcMatching(rKey[r]) # {}
       THEN /\ rpc' = [rpc EXCEPT ![r] = "failed"]
            /\ UNCHANGED <<srcSeq, rId>>
       ELSE /\ rId' = [rId EXCEPT ![r] = srcSeq]
            /\ srcSeq' = srcSeq + 1
            /\ rpc' = [rpc EXCEPT ![r] = "flushed"]
    /\ rCache' = rCache
    /\ UNCHANGED <<srcRows, rKey, SrcRest>>

\* Lines 295 and 517: the cache entry and the commit of the producer.
SrcCommit(r) ==
    /\ rpc[r] = "flushed"
    /\ srcRows' = srcRows \cup {[id |-> rId[r], key |-> rKey[r]]}
    /\ rCache' = [rCache EXCEPT ![r] = @ \cup {[id |-> rId[r], key |-> rKey[r]]}]
    /\ rpc' = [rpc EXCEPT ![r] = "done"]
    /\ UNCHANGED <<srcSeq, rKey, rId, SrcRest>>

NextSource ==
    \E r \in Resolvers :
        \/ SrcWarm(r) \/ SrcLookup(r) \/ SrcSelect(r)
        \/ SrcInsert(r) \/ SrcCommit(r)

InitSource == input = <<>> /\ PipelineIdle /\ ParseIdle /\ RateIdle /\ AuxIdle

SpecSource == InitSource /\ [][NextSource]_vars

\* C33: when two runs resolve the same (name, version) that neither found
\* in its cache, neither of them fails, and once both have resolved it the
\* table holds exactly one row for the key and both runs hold its id; the
\* same for a key whose version is absent.
C33_ConcurrentResolveOneRow ==
    \A r1, r2 \in Resolvers :
        (r1 # r2 /\ rKey[r1] = rKey[r2]
           /\ rpc[r1] \notin {"idle", "lookup"} /\ rpc[r2] \notin {"idle", "lookup"})
        => /\ rpc[r1] # "failed"
           /\ (rpc[r1] = "done" /\ rpc[r2] = "done")
                 => /\ Cardinality(SrcMatching(rKey[r1])) = 1
                    /\ rId[r1] = rId[r2]

(***************************************************************************)
(* Failures of the status writes of parse_health_export (lines 821-851).   *)
(* The final UPDATE is inside the outer try: an error of it is caught by   *)
(* "except Exception" on line 836, which attempts the failed status in a   *)
(* nested try and then re-raises the exception it caught.                  *)
(***************************************************************************)
CoordRest ==
    <<parseVars, rateVars, auxNotFin, uploadVars, input, storageVars, nRuns,
      runBatch, runUser, producerVars, queue, consumerVars, monitorVars,
      coord_total, cancelVars, enq, enqRecs, enqAtCancel, flushedN, subFail>>

\* Lines 824-829 raise: control enters the handler of line 836 with the
\* update's error as the exception in flight.
CoordWriteFinalFail ==
    /\ coordPc = "write_final"
    /\ coordPc' = "handle_update_error"
    /\ UNCHANGED <<batches, raised, written, surfaced, CoordRest>>

\* Lines 841-848 succeed, line 851 re-raises the update's error.
CoordRecoverWrite ==
    /\ coordPc = "handle_update_error"
    /\ batches' = UpdateStatus(batches, runBatch, "failed", coord_total)
    /\ written' = "failed"
    /\ raised' = TRUE
    /\ surfaced' = "status_update"
    /\ coordPc' = "done"
    /\ UNCHANGED CoordRest

\* Lines 841-850 fail too and are logged, line 851 re-raises the update's
\* error.
CoordRecoverWriteFail ==
    /\ coordPc = "handle_update_error"
    /\ raised' = TRUE
    /\ surfaced' = "status_update"
    /\ coordPc' = "done"
    /\ UNCHANGED <<batches, written, CoordRest>>

\* Lines 841-850 on the failure path: the write of "failed" raises and is
\* logged, line 851 re-raises the pipeline's error.
CoordWriteFailedFail ==
    /\ coordPc = "write_failed"
    /\ raised' = TRUE
    /\ surfaced' = "pipeline"
    /\ coordPc' = "done"
    /\ UNCHANGED <<batches, written, CoordRest>>

CoordFaultNext ==
    \/ CoordWriteFinalFail \/ CoordRecoverWrite
    \/ CoordRecoverWriteFail \/ CoordWriteFailedFail

\* One run whose status writes may fail.
NextFinalFault ==
    \/ FirstUpload
    \/ ProducerNext
    \/ ConsumerNext
    \/ ProducerFail
    \/ MonitorNext
    \/ CoordNext
    \/ CoordFaultNext
    \/ CancelNext

SpecFinalFault == Init /\ [][NextFinalFault]_vars

\* C34: a failing write of the terminal status is never what the caller of
\* parse_health_export sees: after a failed status update on the completed
\* or cancelled path nothing is raised, and after a failed write of
\* "failed" the pipeline's own error is raised and the batch row is as it
\* was before the write.
C34_StatusWriteNeverRaises ==
    [][ /\ surfaced' # "status_update"
        /\ (surfaced' = "pipeline" /\ surfaced # "pipeline") => batches' = batches
      ]_vars

\* Successive failure-free runs over the same stored file with cancel
\* requests: each run has its own flag and its own monitor.
NextCancelRerun ==
    \/ Upload
    \/ ProducerNext
    \/ ConsumerNext
    \/ MonitorNext
    \/ CoordWaitDone \/ CoordWriteFinal
    \/ CancelNext

SpecCancelRerun == Init /\ [][NextCancelRerun]_vars

\* C35: the coordinator writes cancelled only in a run whose monitor has read
\* the status cancelling (the flag is set by that read alone and starts
\* unset in every run); a run without failure whose monitor made no such
\* read ends with the row completed, also when a cancel request arrived
\* after the monitor's last poll.
C35_CancelledOnlyAfterMonitorRead ==
    [][ /\ (cancelled' /\ ~cancelled)
            => /\ nRuns' = nRuns
               /\ mpc = "poll" /\ mpc' = "exited"
               /\ Status(batches, runBatch) = "cancelling"
        /\ nRuns' # nRuns => ~cancelled'
        /\ (coordPc = "write_final" /\ coordPc' = "done")
            => /\ written' = Status(batches', runBatch)
               /\ written' = "cancelled" <=> cancelled
               /\ written' = "completed" <=> ~cancelled
      ]_vars

\* A second run ended completed although a cancel request had been accepted
\* after its monitor's last poll; the first run had been cancelled.
C35_Witness ==
    /\ nRuns = 2
    /\ written = "completed" /\ ~cancelled /\ mpc = "cancelled"
    /\ Status(batches, 2) = "completed"
    /\ cancelResp = "200"
    /\ Status(batches, 1) = "cancelled"

(***************************************************************************)
(* Workouts and their route points.                                        *)
(***************************************************************************)
\* Every payload that exists: the one the producer is filling, those in the
\* queue and those the consumers hold.
Payloads ==
    {pbatch} \cup {queue[i][1].p : i \in {j \in DOMAIN queue : ~IsNone(queue[j])}}
             \cup {cbatch[c].p : c \in Consumers}

\* The number of route points the element of workout row w carries.
PointsOfRow(w) ==
    LET made == {i \in DOMAIN input :
                   /\ input[i].tag = "Workout"
                   /\ _process_workout_element(input[i], w.user_id, w.batch_id,
                                               w.source_id)[1] = w}
    IN  IF made = {} THEN 0
        ELSE Len(_process_workout_element(input[CHOOSE i \in made : TRUE],
                     w.user_id, w.batch_id, w.source_id)[2])

RECURSIVE SumPoints(_)
SumPoints(ws) ==
    IF ws = <<>> THEN 0 ELSE PointsOfRow(Head(ws)) + SumPoints(Tail(ws))

\* C36: in every payload - being filled, queued or held by a consumer - each
\* route point has its workout in the same payload and the payload holds as
\* many route points as its workouts' elements carry: a workout is never
\* separated from any of its route points.
C36_RoutePointsTravelWithWorkout ==
    \A p \in Payloads :
        /\ \A i \in DOMAIN p.route_points :
              \E j \in DOMAIN p.workouts :
                  p.workouts[j].id = p.route_points[i].workout_id
        /\ Len(p.route_points) = SumPoints(p.workouts)

\* A consumer holds a payload that the workout's two route points made
\* larger than BATCH_SIZE.
C36_Witness ==
    \E c \in Consumers :
        /\ Len(cbatch[c].p.workouts) = 1
        /\ Len(cbatch[c].p.route_points) = 2
        /\ PayloadLen(cbatch[c].p) > BATCH_SIZE

(***************************************************************************)
(* delete_import_batch and reprocess_import_batch as concurrent requests   *)
(* (api/ingestion.py lines 283-422).  Each request reads the row, and      *)
(* after awaits writes without reading it again; every statement sees the  *)
(* rows committed at the time it executes.  The runs of the batch are      *)
(* reduced to what the endpoints can observe: rows landing with the        *)
(* batch's id and the coordinator's final write.                           *)
(***************************************************************************)
MaintRest == <<mainVars, parseVars, rateVars, auxNotMaint>>

StoredFiles == {"xml", "badzip", "missing", "truncated"}

Respond(q, code) == [mReq EXCEPT ![q].pc = "done", ![q].resp = code]

At(q, kind, pc) == mReq[q].kind = kind /\ mReq[q].pc = pc

\* Both endpoints, the SELECT filtered by user and the status test (lines
\* 290-307 and 342-359).
MaintSelect(q, kind, u) ==
    /\ mReq[q].pc = "idle"
    /\ mReq' =
         IF mRow.status = "absent" \/ u # User
         THEN [mReq EXCEPT ![q] = [kind |-> kind, user |-> u, pc |-> "done", resp |-> "404"]]
         ELSE IF mRow.status \in Active
         THEN [mReq EXCEPT ![q] = [kind |-> kind, user |-> u, pc |-> "done", resp |-> "409"]]
         ELSE [mReq EXCEPT ![q] = [kind |-> kind, user |-> u, pc |-> "checked", resp |-> "none"]]
    /\ UNCHANGED <<mRow, mLanded, mActive, mFile, MaintRest>>

\* delete_import_batch, lines 309-328: the deletes and the commit.
DeleteCommit(q) ==
    /\ At(q, "delete", "checked")
    /\ mLanded' = 0
    /\ mRow' = [status |-> "absent", record_count |-> 0]
    /\ mReq' = Respond(q, "204")
    /\ UNCHANGED <<mActive, mFile, MaintRest>>

\* Faulty variant: the rows are deleted and the row reset before the stored
\* file has been looked at.
ReprocessValidate_ResetsFirst(q) ==
    /\ At(q, "reprocess", "checked")
    /\ mLanded' = 0
    /\ mRow' = IF mRow.status = "absent" THEN mRow
               ELSE [status |-> "processing", record_count |-> 0]
    /\ mReq' = CASE mFile = "missing" -> Respond(q, "404")
                 [] mFile \in {"badzip", "truncated"} -> Respond(q, "400")
                 [] OTHER -> [mReq EXCEPT ![q].pc = "committed"]
    /\ UNCHANGED <<mActive, mFile, MaintRest>>

\* reprocess_import_batch, lines 361-398: the stored file is found,
\* re-extracted and validated.
ReprocessValidate(q) ==
    /\ At(q, "reprocess", "checked")
    /\ mReq' = CASE mFile = "missing" -> Respond(q, "404")
                 [] mFile \in {"badzip", "truncated"} -> Respond(q, "400")
                 [] OTHER -> [mReq EXCEPT ![q].pc = "valid"]
    /\ UNCHANGED <<mRow, mLanded, mActive, mFile, MaintRest>>

\* Lines 400-416: the deletes, the reset of the row and the commit.
ReprocessCommit(q) ==
    /\ At(q, "reprocess", "valid")
    /\ mLanded' = 0
    /\ mRow' = IF mRow.status = "absent" THEN mRow
               ELSE [status |-> "processing", record_count |-> 0]
    /\ mReq' = [mReq EXCEPT ![q].pc = "committed"]
    /\ UNCHANGED <<mActive, mFile, MaintRest>>

\* Lines 418-422: the run is scheduled and the request answered.
ReprocessSchedule(q) ==
    /\ At(q, "reprocess", "committed")
    /\ mActive' = mActive + 1
    /\ mReq' = Respond(q, "202")
    /\ UNCHANGED <<mRow, mLanded, mFile, MaintRest>>

\* A consumer of an active run lands a row of the batch.
MaintRunLand ==
    /\ mActive > 0
    /\ mRow.status # "absent"
    /\ mLanded < MaxLanded
    /\ mLanded' = mLanded + 1
    /\ UNCHANGED <<mRow, mActive, mFile, mReq, MaintRest>>

\* A run ends with the coordinator's write of a terminal status.
MaintRunEnd ==
    /\ mActive > 0
    /\ mActive' = mActive - 1
    /\ \E final \in {"completed", "cancelled", "failed"} :
          mRow' = IF mRow.status = "absent" THEN mRow
                  ELSE [status |-> final, record_count |-> mLanded]
    /\ UNCHANGED <<mLanded, mFile, mReq, MaintRest>>

\* cancel_import_batch on a processing row.
MaintCancel ==
    /\ mRow.status = "processing"
    /\ mRow' = [mRow EXCEPT !.status = "cancelling"]
    /\ UNCHANGED <<mLanded, mActive, mFile, mReq, MaintRest>>

NextMaint ==
    \/ \E q \in MaintRequests, u \in Users, kind \in {"delete", "reprocess"} :
          MaintSelect(q, kind, u)
    \/ \E q \in MaintRequests :
          \/ DeleteCommit(q)
          \/ ReprocessValidate(q)
          \/ ReprocessCommit(q)
          \/ ReprocessSchedule(q)
    \/ MaintRunLand
    \/ MaintRunEnd
    \/ MaintCancel

InitMaint ==
    /\ input = <<>> /\ PipelineIdle /\ ParseIdle /\ RateIdle
    /\ MonitorFaultIdle /\ SrcIdle /\ FinIdle /\ ChalIdle
    /\ MaintReady /\ mFile \in StoredFiles

SpecMaint == InitMaint /\ [][NextMaint]_vars

\* C37: a delete or reprocess request that finds the batch processing or
\* cancelling is answered 409 and changes nothing; hence, whatever the
\* interleaving of requests and runs, a batch never has two runs active and
\* no landed row of it is deleted while a run of it is active.
C37_NoMaintenanceDuringRun ==
    /\ [](mActive <= 1)
    /\ [][ /\ mLanded' < mLanded => mActive = 0
           /\ \A q \in MaintRequests :
                 (mReq'[q].resp = "409" /\ mReq[q].resp # "409")
                     => /\ mRow.status \in Active
                        /\ UNCHANGED <<mRow, mLanded, mActive>>
         ]_vars

RejectCodes == {"404", "409", "400"}

ChalRest == <<mainVars, parseVars, _request_log, rateResp, admitted, auxNotChal>>

\* store_challenge, lines 17-19.
store_challenge(key, challenge) ==
    /\ _challenges' = [_challenges EXCEPT
                         ![key] = Some([challenge |-> challenge,
                                        expiry |-> now + _CHALLENGE_TTL])]
    /\ issued' = [issued EXCEPT ![key] = [challenge |-> challenge, at |-> now]]
    /\ served' = [served EXCEPT ![key] = 0]
    /\ UNCHANGED <<chalOut, now, ChalRest>>

\* The result of get_challenge on an entry (lines 25-30).
ChallengeOf(entry) ==
    IF IsNone(entry) THEN None
    ELSE IF now > entry[1].expiry THEN None
    ELSE Some(entry[1].challenge)

\* Faulty variant: the entry is read with get and stays in the store.
get_challenge_Peek(key) ==
    LET result == ChallengeOf(_challenges[key])
    IN  /\ chalOut' = [key |-> key, result |-> result]
        /\ served' = [served EXCEPT ![key] = IF IsNone(result) THEN @ ELSE @ + 1]
        /\ UNCHANGED <<_challenges, issued, now, ChalRest>>

\* get_challenge, lines 22-30: pop, then the expiry test.
get_challenge(key) ==
    LET result == ChallengeOf(_challenges[key])
    IN  /\ _challenges' = [_challenges EXCEPT ![key] = None]
        /\ chalOut' = [key |-> key, result |-> result]
        /\ served' = [served EXCEPT ![key] = IF IsNone(result) THEN @ ELSE @ + 1]
        /\ UNCHANGED <<issued, now, ChalRest>>

NextChallenge ==
    \/ \E k \in ChallengeKeys, c \in Challenges : store_challenge(k, c)
    \/ \E k \in ChallengeKeys : get_challenge(k)
    \/ ClockTick

SpecChallenge == Init /\ [][NextChallenge]_vars

\* C39: a stored challenge is returned at most once: get_challenge(key)
\* leaves nothing under the key, so further calls return None until
\* store_challenge is called for the key again; and a challenge is returned
\* only while the clock is at most _CHALLENGE_TTL past its store, and it is
\* the challenge last stored under the key.
C39_ChallengeSingleUse ==
    /\ [](\A k \in ChallengeKeys :
             /\ served[k] <= 1
             /\ served[k] = 1 => IsNone(_challenges[k]))
    /\ [][chalOut' # chalOut =>
            /\ IsNone(_challenges'[chalOut'.key])
            /\ ~IsNone(chalOut'.result) =>
                  /\ chalOut'.result = Some(issued[chalOut'.key].challenge)
                  /\ issued[chalOut'.key].at >= 0
                  /\ now <= issued[chalOut'.key].at + _CHALLENGE_TTL
         ]_vars

\* The challenge of a key was returned once and the next call for the key
\* returned None; under the other key an expired challenge is still stored.
C39_Witness ==
    \E k, o \in ChallengeKeys :
        /\ served[k] = 1
        /\ chalOut = [key |-> k, result |-> None]
        /\ o # k /\ ~IsNone(_challenges[o])
        /\ now > _challenges[o][1].expiry

====
